---- MODULE Spec2Model ----
(***************************************************************************)
(* Model of the Bitcoin trading advisor's recommendation engine            *)
(* (src/src/engine/recommendation.py).                                     *)
(*                                                                         *)
(* Numbers.  Python floats are modelled as exact fixed-point rationals:    *)
(* every score, weight, confidence and sentiment compound is an integer    *)
(* count of 1/One, so 1.0 is One and 0.85 is Pct(85).  RSI values and      *)
(* MACD histograms are integers, prices are whole dollars, and a price     *)
(* rounded to two decimals is an integer count of cents.  Python's         *)
(* round() is round-half-to-even on the exact value.                       *)
(***************************************************************************)
EXTENDS Integers, Sequences, FiniteSets, TLC

VARIABLES
    ctor,       \* arguments of the RecommendationEngine(...) call
    engine,     \* the RecommendationEngine object, or the error raised instead
    call,       \* arguments of the latest generate_recommendation call
    result,     \* its outcome: the returned dict, or the exception raised
    score,      \* argument of a direct _score_to_recommendation call
    mapped,     \* its return value
    frames,     \* activation records of the evaluations in progress
    probe,      \* a direct call of one method: its name and arguments
    ret,        \* what that call returned
    prev,       \* the direct call made before it, with its return value
    cache,      \* SimpleCache._cache: key -> (value, expiry)
    now,        \* what time.time() returns, in seconds
    hist,       \* the cache operations so far: what was stored, and the latest one
    req,        \* the /api/price request being handled, or the latest answer
    prod        \* the launcher: its position, its child and the signals delivered

engineVars == <<ctor, engine, call, result, score, mapped, frames, probe, ret, prev>>

serviceVars == <<cache, now, hist, req, prod>>

vars == <<engineVars, serviceVars>>

-----------------------------------------------------------------------------
(* Fixed-point arithmetic *)

One == 30 * 1000

Pct(n) == (n * One) \div 100

Abs(x) == IF x < 0 THEN -x ELSE x

Min(a, b) == IF a <= b THEN a ELSE b

Max(a, b) == IF a >= b THEN a ELSE b

\* round(n / d) to the nearest integer, ties to the even one (d > 0)
RoundHalfEven(n, d) ==
    LET q == n \div d
        r == n % d
    IN  IF 2 * r < d THEN q
        ELSE IF 2 * r > d THEN q + 1
        ELSE IF q % 2 = 0 THEN q ELSE q + 1

\* round(x, 2) and round(x, 3) of a value counted in 1/One
Round2(x) == RoundHalfEven(x, One \div 100) * (One \div 100)

Round3(x) == RoundHalfEven(x, One \div 1000) * (One \div 1000)

-----------------------------------------------------------------------------
(* Python dicts are functions from keys to values *)

EmptyDict == [k \in {} |-> 0]

Has(d, k) == k \in DOMAIN d

\* d.get(k, default)
Get(d, k, default) == IF k \in DOMAIN d THEN d[k] ELSE default

Without(d, k) == [x \in DOMAIN d \ {k} |-> d[x]]

\* a value whose Python type matters to the code that reads it
PyFloat(x) == [type |-> "float", v |-> x]

PyDict(d) == [type |-> "dict", v |-> d]

PyNone == [type |-> "NoneType", v |-> 0]

PyStr(x) == [type |-> "str", v |-> x]

\* bool(x)
Truthy(x) ==
    CASE x.type = "float" -> x.v # 0
      [] x.type = "dict" -> DOMAIN x.v # {}
      [] OTHER -> FALSE

-----------------------------------------------------------------------------
(* Factor scorers *)

\* mutant: an RSI of exactly 70 is not yet overbought
RsiOverboughtStrict(rsi_value) ==
    IF rsi_value > 70 THEN
        LET severity == Min(((rsi_value - 70) * One) \div 30, One)
        IN  [score |-> -Pct(50) - severity \div 2, signal |-> "Overbought"]
    ELSE IF rsi_value <= 30 THEN
        LET severity == Min(((30 - rsi_value) * One) \div 30, One)
        IN  [score |-> Pct(50) + severity \div 2, signal |-> "Oversold"]
    ELSE IF 40 <= rsi_value /\ rsi_value <= 60 THEN
        [score |-> 0, signal |-> "Neutral"]
    ELSE IF rsi_value > 60 THEN
        [score |-> -Pct(30), signal |-> "Moderate strength"]
    ELSE
        [score |-> Pct(30), signal |-> "Moderate weakness"]

\* mutant: the oversold severity grows with the RSI instead of falling
RsiSeverityInverted(rsi_value) ==
    IF rsi_value >= 70 THEN
        LET severity == Min(((rsi_value - 70) * One) \div 30, One)
        IN  [score |-> -Pct(50) - severity \div 2, signal |-> "Overbought"]
    ELSE IF rsi_value <= 30 THEN
        LET severity == Min((rsi_value * One) \div 30, One)
        IN  [score |-> Pct(50) + severity \div 2, signal |-> "Oversold"]
    ELSE IF 40 <= rsi_value /\ rsi_value <= 60 THEN
        [score |-> 0, signal |-> "Neutral"]
    ELSE IF rsi_value > 60 THEN
        [score |-> -Pct(30), signal |-> "Moderate strength"]
    ELSE
        [score |-> Pct(30), signal |-> "Moderate weakness"]

_analyze_rsi(rsi_value) ==
    IF rsi_value >= 70 THEN
        LET severity == Min(((rsi_value - 70) * One) \div 30, One)
        IN  [score |-> -Pct(50) - severity \div 2, signal |-> "Overbought"]
    ELSE IF rsi_value <= 30 THEN
        LET severity == Min(((30 - rsi_value) * One) \div 30, One)
        IN  [score |-> Pct(50) + severity \div 2, signal |-> "Oversold"]
    ELSE IF 40 <= rsi_value /\ rsi_value <= 60 THEN
        [score |-> 0, signal |-> "Neutral"]
    ELSE IF rsi_value > 60 THEN
        [score |-> -Pct(30), signal |-> "Moderate strength"]
    ELSE
        [score |-> Pct(30), signal |-> "Moderate weakness"]

\* the 21-week EMA step of _analyze_moving_averages: the score delta and the
\* signal it appends, or the TypeError of multiplying a dict by 1.05
EmaBand(current_price, ema_21week) ==
    IF ~Truthy(ema_21week) THEN [ok |-> TRUE, delta |-> 0, signals |-> <<>>]
    ELSE IF ema_21week.type # "float" THEN [ok |-> FALSE, error |-> "TypeError"]
    ELSE IF 100 * current_price > 105 * ema_21week.v
        THEN [ok |-> TRUE, delta |-> Pct(20), signals |-> <<"Above 21W EMA">>]
    ELSE IF 100 * current_price < 95 * ema_21week.v
        THEN [ok |-> TRUE, delta |-> -Pct(20), signals |-> <<"Below 21W EMA">>]
    ELSE [ok |-> TRUE, delta |-> 0, signals |-> <<>>]

\* mutant: the clamp left out
ClampMissing(x) == x

\* max(-1.0, min(1.0, score))
Clamp(x) == Max(-One, Min(One, x))

_analyze_moving_averages(current_price, technical_analysis, ma_trend, ma_crossovers) ==
    LET trend ==
            \* ma_trend == 'strong_bullish' is false of a value that is not a str
            IF ma_trend.type # "str" THEN [d |-> 0, s |-> <<>>]
            ELSE
            CASE ma_trend.v = "strong_bullish" -> [d |-> Pct(80), s |-> <<"Strong uptrend">>]
              [] ma_trend.v = "bullish" -> [d |-> Pct(50), s |-> <<"Uptrend">>]
              [] ma_trend.v = "bearish" -> [d |-> -Pct(50), s |-> <<"Downtrend">>]
              [] ma_trend.v = "strong_bearish" -> [d |-> -Pct(80), s |-> <<"Strong downtrend">>]
              [] OTHER -> [d |-> 0, s |-> <<>>]
        golden == IF Get(ma_crossovers, "golden_cross", FALSE)
                  THEN [d |-> Pct(30), s |-> <<"Golden Cross">>]
                  ELSE [d |-> 0, s |-> <<>>]
        death == IF Get(ma_crossovers, "death_cross", FALSE)
                 THEN [d |-> -Pct(30), s |-> <<"Death Cross">>]
                 ELSE [d |-> 0, s |-> <<>>]
        moving_averages == Get(technical_analysis, "moving_averages", EmptyDict)
        ema_21week == Get(moving_averages, "ema_147", PyNone)
        band == EmaBand(current_price, ema_21week)
    IN  IF ~band.ok THEN [ok |-> FALSE, error |-> band.error]
        ELSE LET sum == trend.d + golden.d + death.d + band.delta
                 signals == trend.s \o golden.s \o death.s \o band.signals
             IN  [ok |-> TRUE,
                  score |-> Clamp(sum),
                  signal |-> IF signals # <<>> THEN signals
                             ELSE <<"Neutral MA structure">>]

\* deviation < k and deviation > k, for
\* deviation = ((current_price - fair_value) / fair_value) * 100, fair_value # 0
DeviationBelow(current_price, fair_value, k) ==
    IF fair_value > 0 THEN (current_price - fair_value) * 100 < k * fair_value
    ELSE (current_price - fair_value) * 100 > k * fair_value

DeviationAbove(current_price, fair_value, k) ==
    IF fair_value > 0 THEN (current_price - fair_value) * 100 > k * fair_value
    ELSE (current_price - fair_value) * 100 < k * fair_value

\* mutant: the deviation bands are tried before the corridor status
PowerLawDeviationFirst(status, current_price, fair_value, power_law_analysis) ==
    IF fair_value = 0 THEN [ok |-> FALSE, error |-> "ZeroDivisionError"]
    ELSE IF DeviationBelow(current_price, fair_value, -20)
        THEN [ok |-> TRUE, score |-> Pct(60), signal |-> "Undervalued"]
    ELSE IF DeviationBelow(current_price, fair_value, -10)
        THEN [ok |-> TRUE, score |-> Pct(30), signal |-> "Below fair value"]
    ELSE IF DeviationAbove(current_price, fair_value, 50)
        THEN [ok |-> TRUE, score |-> -Pct(70), signal |-> "Overvalued"]
    ELSE IF DeviationAbove(current_price, fair_value, 20)
        THEN [ok |-> TRUE, score |-> -Pct(40), signal |-> "Above fair value"]
    ELSE IF status = "Deep Value" THEN [ok |-> TRUE, score |-> One, signal |-> "Deep Value"]
    ELSE IF status = "Bubble Risk" THEN [ok |-> TRUE, score |-> -One, signal |-> "Bubble Risk"]
    ELSE [ok |-> TRUE, score |-> Pct(10), signal |-> "Fair Value Zone"]

_analyze_power_law(status, current_price, fair_value, power_law_analysis) ==
    IF fair_value = 0 THEN [ok |-> FALSE, error |-> "ZeroDivisionError"]
    ELSE IF status = "Deep Value" THEN [ok |-> TRUE, score |-> One, signal |-> "Deep Value"]
    ELSE IF status = "Bubble Risk" THEN [ok |-> TRUE, score |-> -One, signal |-> "Bubble Risk"]
    ELSE IF DeviationBelow(current_price, fair_value, -20)
        THEN [ok |-> TRUE, score |-> Pct(60), signal |-> "Undervalued"]
    ELSE IF DeviationBelow(current_price, fair_value, -10)
        THEN [ok |-> TRUE, score |-> Pct(30), signal |-> "Below fair value"]
    ELSE IF DeviationAbove(current_price, fair_value, 50)
        THEN [ok |-> TRUE, score |-> -Pct(70), signal |-> "Overvalued"]
    ELSE IF DeviationAbove(current_price, fair_value, 20)
        THEN [ok |-> TRUE, score |-> -Pct(40), signal |-> "Above fair value"]
    ELSE [ok |-> TRUE, score |-> Pct(10), signal |-> "Fair Value Zone"]

\* min(abs(histogram) / 1000, 1.0) if histogram else 0.5
MacdStrength(histogram) ==
    IF histogram # 0 THEN Min((Abs(histogram) * One) \div 1000, One) ELSE Pct(50)

_analyze_macd(macd) ==
    LET signal == Get(macd, "signal", "neutral")
        histogram == Get(macd, "histogram", 0)
    IN  IF signal = "bullish"
        THEN [score |-> Pct(30) + (MacdStrength(histogram) * 4) \div 10,
              signal |-> "Bullish momentum"]
        ELSE IF signal = "bearish"
        THEN [score |-> -Pct(30) - (MacdStrength(histogram) * 4) \div 10,
              signal |-> "Bearish momentum"]
        ELSE [score |-> 0, signal |-> "Neutral momentum"]

\* mutant: extreme fear is tried before extreme euphoria
FearBeforeEuphoria(reddit_score, news_score) ==
    LET twice_avg == reddit_score + news_score
    IN  IF reddit_score < Pct(15) \/ news_score < Pct(15)
        THEN [score |-> Pct(60), signal |-> "Extreme fear (contrarian bullish)"]
        ELSE IF reddit_score > Pct(85) \/ news_score > Pct(85)
        THEN [score |-> -Pct(60), signal |-> "Extreme euphoria (contrarian bearish)"]
        ELSE IF twice_avg > 2 * Pct(60)
        THEN [score |-> Pct(40), signal |-> "Positive sentiment"]
        ELSE IF twice_avg > 2 * Pct(30)
        THEN [score |-> Pct(20), signal |-> "Moderately positive"]
        ELSE IF twice_avg < -2 * Pct(30)
        THEN [score |-> -Pct(40), signal |-> "Negative sentiment"]
        ELSE IF twice_avg < -2 * Pct(10)
        THEN [score |-> -Pct(20), signal |-> "Moderately negative"]
        ELSE [score |-> 0, signal |-> "Neutral sentiment"]

\* mutant: extreme fear starts below -0.85, mirroring the euphoria threshold
SymmetricFearThreshold(reddit_score, news_score) ==
    LET twice_avg == reddit_score + news_score
    IN  IF reddit_score > Pct(85) \/ news_score > Pct(85)
        THEN [score |-> -Pct(60), signal |-> "Extreme euphoria (contrarian bearish)"]
        ELSE IF reddit_score < -Pct(85) \/ news_score < -Pct(85)
        THEN [score |-> Pct(60), signal |-> "Extreme fear (contrarian bullish)"]
        ELSE IF twice_avg > 2 * Pct(60)
        THEN [score |-> Pct(40), signal |-> "Positive sentiment"]
        ELSE IF twice_avg > 2 * Pct(30)
        THEN [score |-> Pct(20), signal |-> "Moderately positive"]
        ELSE IF twice_avg < -2 * Pct(30)
        THEN [score |-> -Pct(40), signal |-> "Negative sentiment"]
        ELSE IF twice_avg < -2 * Pct(10)
        THEN [score |-> -Pct(20), signal |-> "Moderately negative"]
        ELSE [score |-> 0, signal |-> "Neutral sentiment"]

\* avg_sentiment = (reddit_score + news_score) / 2 is compared doubled
_analyze_sentiment(reddit_score, news_score) ==
    LET twice_avg == reddit_score + news_score
    IN  IF reddit_score > Pct(85) \/ news_score > Pct(85)
        THEN [score |-> -Pct(60), signal |-> "Extreme euphoria (contrarian bearish)"]
        ELSE IF reddit_score < Pct(15) \/ news_score < Pct(15)
        THEN [score |-> Pct(60), signal |-> "Extreme fear (contrarian bullish)"]
        ELSE IF twice_avg > 2 * Pct(60)
        THEN [score |-> Pct(40), signal |-> "Positive sentiment"]
        ELSE IF twice_avg > 2 * Pct(30)
        THEN [score |-> Pct(20), signal |-> "Moderately positive"]
        ELSE IF twice_avg < -2 * Pct(30)
        THEN [score |-> -Pct(40), signal |-> "Negative sentiment"]
        ELSE IF twice_avg < -2 * Pct(10)
        THEN [score |-> -Pct(20), signal |-> "Moderately negative"]
        ELSE [score |-> 0, signal |-> "Neutral sentiment"]

-----------------------------------------------------------------------------
(* Decision mapper, target calculator, legacy helpers *)

_recommendation_to_score(recommendation) ==
    CASE recommendation = "buy" -> One
      [] recommendation = "hold" -> 0
      [] recommendation = "sell" -> -One
      [] OTHER -> 0

\* mutant: the thresholds compared strictly
StrictScoreToRecommendation(s) ==
    LET abs_score == Abs(s)
    IN  IF s > Pct(70) THEN [recommendation |-> "strong_buy", confidence |-> Min(abs_score, One)]
        ELSE IF s > Pct(30) THEN [recommendation |-> "buy", confidence |-> abs_score]
        ELSE IF s < -Pct(70) THEN [recommendation |-> "strong_sell", confidence |-> Min(abs_score, One)]
        ELSE IF s < -Pct(30) THEN [recommendation |-> "sell", confidence |-> abs_score]
        ELSE [recommendation |-> "hold", confidence |-> One - abs_score]

\* mutant: hold reports the score itself as its confidence
HoldConfidenceIsScore(s) ==
    LET abs_score == Abs(s)
    IN  IF s >= Pct(70) THEN [recommendation |-> "strong_buy", confidence |-> Min(abs_score, One)]
        ELSE IF s >= Pct(30) THEN [recommendation |-> "buy", confidence |-> abs_score]
        ELSE IF s <= -Pct(70) THEN [recommendation |-> "strong_sell", confidence |-> Min(abs_score, One)]
        ELSE IF s <= -Pct(30) THEN [recommendation |-> "sell", confidence |-> abs_score]
        ELSE [recommendation |-> "hold", confidence |-> abs_score]

_score_to_recommendation(s) ==
    LET abs_score == Abs(s)
    IN  IF s >= Pct(70) THEN [recommendation |-> "strong_buy", confidence |-> Min(abs_score, One)]
        ELSE IF s >= Pct(30) THEN [recommendation |-> "buy", confidence |-> abs_score]
        ELSE IF s <= -Pct(70) THEN [recommendation |-> "strong_sell", confidence |-> Min(abs_score, One)]
        ELSE IF s <= -Pct(30) THEN [recommendation |-> "sell", confidence |-> abs_score]
        ELSE [recommendation |-> "hold", confidence |-> One - abs_score]

\* 'buy' in recommendation, 'sell' in recommendation
ContainsBuy(recommendation) == recommendation \in {"buy", "strong_buy"}

ContainsSell(recommendation) == recommendation \in {"sell", "strong_sell"}

\* mutant: the sell family moves its targets the way the buy family does
TargetsNotMirrored(current_price, recommendation, confidence) ==
    LET entry == 100 * current_price
        move == current_price * confidence
    IN  IF ContainsBuy(recommendation) \/ ContainsSell(recommendation) THEN
            [entry |-> entry,
             target_1 |-> entry + RoundHalfEven(move, One \div 5),
             target_2 |-> entry + RoundHalfEven(move, One \div 10),
             stop_loss |-> entry + RoundHalfEven(-move, One \div 3)]
        ELSE
            [entry |-> entry,
             support |-> 95 * current_price,
             resistance |-> 105 * current_price]

\* prices in the targets are round(x, 2), counted in cents
_calculate_targets(current_price, recommendation, confidence) ==
    LET entry == 100 * current_price
        move == current_price * confidence
    IN  IF ContainsBuy(recommendation) THEN
            [entry |-> entry,
             target_1 |-> entry + RoundHalfEven(move, One \div 5),
             target_2 |-> entry + RoundHalfEven(move, One \div 10),
             stop_loss |-> entry + RoundHalfEven(-move, One \div 3)]
        ELSE IF ContainsSell(recommendation) THEN
            [entry |-> entry,
             target_1 |-> entry + RoundHalfEven(-move, One \div 5),
             target_2 |-> entry + RoundHalfEven(-move, One \div 10),
             stop_loss |-> entry + RoundHalfEven(move, One \div 3)]
        ELSE
            [entry |-> entry,
             support |-> 95 * current_price,
             resistance |-> 105 * current_price]

\* never called by generate_recommendation
_create_contrarian_alert(message, alert_type, current_price) ==
    [recommendation |-> "CONTRARIAN_ALERT",
     confidence |-> One,
     reasoning |-> message,
     alert_type |-> alert_type,
     current_price |-> current_price,
     combined_score |-> 0,
     targets |-> [entry |-> 100 * current_price,
                  support |-> 95 * current_price,
                  resistance |-> 105 * current_price]]

\* the closing line of _generate_holistic_reasoning
ScoreBand(composite_score) ==
    IF composite_score > Pct(70) THEN "Strong confluence of bullish signals"
    ELSE IF composite_score > Pct(30) THEN "Moderately bullish setup"
    ELSE IF composite_score < -Pct(70) THEN "Strong confluence of bearish signals"
    ELSE IF composite_score < -Pct(30) THEN "Moderately bearish setup"
    ELSE "Neutral / Mixed signals"

_generate_holistic_reasoning(rsi_signal, ma_signal, pl_signal, macd_signal, sentiment_signal, composite_score, recommendation) ==
    << <<"Holistic Analysis", recommendation>>,
       <<"RSI", rsi_signal>>,
       <<"MACD", macd_signal>>,
       <<"Moving Averages", ma_signal>>,
       <<"Power Law", pl_signal>>,
       <<"Market Sentiment", sentiment_signal>>,
       <<"Score", ScoreBand(composite_score)>> >>

_analyze_signal_confluence(rsi_signal, ma_signal, pl_signal, macd_signal, sentiment_signal) ==
    << <<"RSI", rsi_signal>>,
       <<"Moving Averages", ma_signal>>,
       <<"Power Law", pl_signal>>,
       <<"MACD", macd_signal>>,
       <<"Sentiment", sentiment_signal>> >>

-----------------------------------------------------------------------------
(* The engine *)

NoEngine == [status |-> "none"]

\* mutant: weights inside the tolerance are rescaled to sum to 1.0
RenormalisingInit(reddit_weight, news_weight, technical_weight) ==
    LET sum == reddit_weight + news_weight + technical_weight
    IN  IF ~(0 <= reddit_weight /\ reddit_weight <= One
             /\ 0 <= news_weight /\ news_weight <= One
             /\ 0 <= technical_weight /\ technical_weight <= One)
        THEN [status |-> "ValueError", message |-> "Weights must be between 0 and 1"]
        ELSE IF Abs(sum - One) > Pct(1)
        THEN [status |-> "ValueError", message |-> "Weights must sum to 1.0"]
        ELSE [status |-> "constructed",
              reddit_weight |-> (reddit_weight * One) \div sum,
              news_weight |-> (news_weight * One) \div sum,
              technical_weight |-> (technical_weight * One) \div sum]

\* RecommendationEngine.__init__
__init__(reddit_weight, news_weight, technical_weight) ==
    IF ~(0 <= reddit_weight /\ reddit_weight <= One
         /\ 0 <= news_weight /\ news_weight <= One
         /\ 0 <= technical_weight /\ technical_weight <= One)
    THEN [status |-> "ValueError", message |-> "Weights must be between 0 and 1"]
    ELSE IF Abs(reddit_weight + news_weight + technical_weight - One) > Pct(1)
    THEN [status |-> "ValueError", message |-> "Weights must sum to 1.0"]
    ELSE [status |-> "constructed",
          reddit_weight |-> reddit_weight,
          news_weight |-> news_weight,
          technical_weight |-> technical_weight]

Raised(e) == [outcome |-> "raised", error |-> e]

\* mutant: the RSI and moving-average weights exchanged
SwappedWeightsComposite(rsi_score, ma_score, pl_score, macd_score, sentiment_score) ==
    (rsi_score * 25 + ma_score * 20 + pl_score * 25
     + macd_score * 15 + sentiment_score * 15) \div 100

\* the five fixed weights of the composite, in percent
CompositeScore(rsi_score, ma_score, pl_score, macd_score, sentiment_score) ==
    (rsi_score * 20 + ma_score * 25 + pl_score * 25
     + macd_score * 15 + sentiment_score * 15) \div 100

FactorWeights ==
    [rsi |-> Pct(20), moving_averages |-> Pct(25), power_law |-> Pct(25),
     macd |-> Pct(15), sentiment |-> Pct(15)]

\* the legacy 'signals' block, or the exception its arithmetic raises
LegacySignals(self, technical_analysis, news_sentiment_analysis, reddit_sentiment_analysis) ==
    LET technical_rec == technical_analysis["overall"]["recommendation"]
        technical_conf == technical_analysis["overall"]["confidence"]
        news_rec == news_sentiment_analysis["recommendation"]
        news_conf == news_sentiment_analysis["confidence"]
        reddit_rec == reddit_sentiment_analysis["recommendation"]
        reddit_conf == reddit_sentiment_analysis["confidence"]
        tech_score == (_recommendation_to_score(technical_rec) * technical_conf) \div One
        news_score == (_recommendation_to_score(news_rec) * news_conf) \div One
        reddit_score == (_recommendation_to_score(reddit_rec) * reddit_conf) \div One
        sentiment_weight == self.reddit_weight + self.news_weight
    IN  IF sentiment_weight = 0 THEN Raised("ZeroDivisionError")
        ELSE IF ~Has(reddit_sentiment_analysis, "overall_sentiment")
                \/ ~Has(reddit_sentiment_analysis, "article_count")
                \/ ~Has(news_sentiment_analysis, "article_count")
        THEN Raised("KeyError")
        ELSE [outcome |-> "computed",
              technical |-> [recommendation |-> technical_rec,
                             confidence |-> technical_conf,
                             score |-> Round3(tech_score),
                             weight |-> self.technical_weight],
              sentiment |-> [recommendation |-> IF reddit_conf > news_conf
                                                THEN reddit_rec ELSE news_rec,
                             confidence |-> Max(reddit_conf, news_conf),
                             score |-> RoundHalfEven(
                                           reddit_score * self.reddit_weight
                                               + news_score * self.news_weight,
                                           sentiment_weight * (One \div 1000))
                                       * (One \div 1000),
                             weight |-> sentiment_weight,
                             \* combined_compound, an exact fraction
                             compound |-> [num |-> reddit_sentiment_analysis["average_compound"]
                                                       * self.reddit_weight
                                                   + news_sentiment_analysis["average_compound"]
                                                       * self.news_weight,
                                           den |-> sentiment_weight],
                             overall_sentiment |-> reddit_sentiment_analysis["overall_sentiment"],
                             article_count |-> reddit_sentiment_analysis["article_count"]
                                               + news_sentiment_analysis["article_count"]]]

\* generate_recommendation, lines 208-241: read the inputs and score the five
\* factors; the result holds the local variables, or the exception raised
ScoreFactors(power_law_analysis, technical_analysis, news_sentiment_analysis, reddit_sentiment_analysis, current_price) ==
    LET rsi == Get(technical_analysis, "rsi", EmptyDict)
        rsi_value == Get(rsi, "value", 50)
        macd == Get(technical_analysis, "macd", EmptyDict)
        ma_trend == Get(technical_analysis, "ma_trend", PyStr("neutral"))
        ma_crossovers == Get(technical_analysis, "ma_crossovers", EmptyDict)
    IN
    IF ~Has(power_law_analysis, "status") \/ ~Has(power_law_analysis, "fair_value")
       \/ ~Has(reddit_sentiment_analysis, "average_compound")
       \/ ~Has(news_sentiment_analysis, "average_compound")
    THEN Raised("KeyError")
    ELSE
    LET power_law_status == power_law_analysis["status"]
        power_law_fair_value == power_law_analysis["fair_value"]
        reddit_score_raw == reddit_sentiment_analysis["average_compound"]
        news_score_raw == news_sentiment_analysis["average_compound"]
        r_rsi == _analyze_rsi(rsi_value)
        r_ma == _analyze_moving_averages(current_price, technical_analysis,
                                         ma_trend, ma_crossovers)
        r_pl == _analyze_power_law(power_law_status, current_price,
                                   power_law_fair_value, power_law_analysis)
        r_macd == _analyze_macd(macd)
        r_sentiment == _analyze_sentiment(reddit_score_raw, news_score_raw)
    IN
    IF ~r_ma.ok THEN Raised(r_ma.error)
    ELSE IF ~r_pl.ok THEN Raised(r_pl.error)
    ELSE [outcome |-> "scored",
          rsi_score |-> r_rsi.score, rsi_signal |-> r_rsi.signal,
          ma_score |-> r_ma.score, ma_signal |-> r_ma.signal,
          pl_score |-> r_pl.score, pl_signal |-> r_pl.signal,
          macd_score |-> r_macd.score, macd_signal |-> r_macd.signal,
          sentiment_score |-> r_sentiment.score,
          sentiment_signal |-> r_sentiment.signal]

\* generate_recommendation, lines 243-266: composite, decision and reasoning,
\* from the factor scores in the local variables l
Decide(l) ==
    LET composite_score == CompositeScore(l.rsi_score, l.ma_score, l.pl_score,
                                          l.macd_score, l.sentiment_score)
        decision == _score_to_recommendation(composite_score)
    IN  [outcome |-> "decided",
         rsi_score |-> l.rsi_score, rsi_signal |-> l.rsi_signal,
         ma_score |-> l.ma_score, ma_signal |-> l.ma_signal,
         pl_score |-> l.pl_score, pl_signal |-> l.pl_signal,
         macd_score |-> l.macd_score, macd_signal |-> l.macd_signal,
         sentiment_score |-> l.sentiment_score,
         sentiment_signal |-> l.sentiment_signal,
         composite_score |-> composite_score,
         divergence_signal |-> _analyze_signal_confluence(
             l.rsi_signal, l.ma_signal, l.pl_signal, l.macd_signal, l.sentiment_signal),
         recommendation |-> decision.recommendation,
         confidence |-> decision.confidence,
         reasoning |-> _generate_holistic_reasoning(
             l.rsi_signal, l.ma_signal, l.pl_signal, l.macd_signal, l.sentiment_signal,
             composite_score, decision.recommendation)]

\* generate_recommendation, lines 268-366: the legacy scores, the targets and
\* the returned dict (the timestamp is left out), from the local variables l
BuildResult(self, power_law_analysis, technical_analysis, news_sentiment_analysis, reddit_sentiment_analysis, current_price, l) ==
    IF ~Has(technical_analysis, "overall")
       \/ ~Has(news_sentiment_analysis, "recommendation")
       \/ ~Has(news_sentiment_analysis, "confidence")
       \/ ~Has(reddit_sentiment_analysis, "recommendation")
       \/ ~Has(reddit_sentiment_analysis, "confidence")
    THEN Raised("KeyError")
    ELSE
    LET targets == _calculate_targets(current_price, l.recommendation, l.confidence)
        signals == LegacySignals(self, technical_analysis, news_sentiment_analysis,
                                 reddit_sentiment_analysis)
    IN
    IF signals.outcome = "raised" THEN signals
    ELSE IF ~Has(power_law_analysis, "support_value")
            \/ ~Has(power_law_analysis, "resistance_value")
    THEN Raised("KeyError")
    ELSE
        [outcome |-> "returned",
         recommendation |-> l.recommendation,
         confidence |-> Round2(l.confidence),
         composite_score |-> Round3(l.composite_score),
         combined_score |-> Round3(l.composite_score),
         reasoning |-> l.reasoning,
         current_price |-> current_price,
         targets |-> targets,
         divergence_signal |-> l.divergence_signal,
         factor_scores |-> [rsi |-> Round3(l.rsi_score),
                            moving_averages |-> Round3(l.ma_score),
                            power_law |-> Round3(l.pl_score),
                            macd |-> Round3(l.macd_score),
                            sentiment |-> Round3(l.sentiment_score)],
         factor_weights |-> FactorWeights,
         power_law_data |-> [fair_value |-> power_law_analysis["fair_value"],
                             support_value |-> power_law_analysis["support_value"],
                             resistance_value |-> power_law_analysis["resistance_value"],
                             status |-> power_law_analysis["status"]],
         signals |-> [technical |-> signals.technical, sentiment |-> signals.sentiment],
         \* the local variables at the return statement, before rounding
         locals |-> [rsi_score |-> l.rsi_score,
                     ma_score |-> l.ma_score,
                     pl_score |-> l.pl_score,
                     macd_score |-> l.macd_score,
                     sentiment_score |-> l.sentiment_score,
                     composite_score |-> l.composite_score,
                     confidence |-> l.confidence]]

\* mutant: the sentiment factor is scaled by the engine's sentiment weight
\* before it enters the composite
WeightedSentimentEvaluation(self, power_law_analysis, technical_analysis, news_sentiment_analysis, reddit_sentiment_analysis, current_price) ==
    LET scored == ScoreFactors(power_law_analysis, technical_analysis,
                               news_sentiment_analysis, reddit_sentiment_analysis,
                               current_price)
    IN  IF scored.outcome = "raised" THEN scored
        ELSE BuildResult(self, power_law_analysis, technical_analysis,
                         news_sentiment_analysis, reddit_sentiment_analysis,
                         current_price,
                         Decide([scored EXCEPT !.sentiment_score =
                                     (@ * (self.reddit_weight + self.news_weight))
                                         \div One]))

\* RecommendationEngine.generate_recommendation
generate_recommendation(self, power_law_analysis, technical_analysis, news_sentiment_analysis, reddit_sentiment_analysis, current_price) ==
    LET scored == ScoreFactors(power_law_analysis, technical_analysis,
                               news_sentiment_analysis, reddit_sentiment_analysis,
                               current_price)
    IN  IF scored.outcome = "raised" THEN scored
        ELSE BuildResult(self, power_law_analysis, technical_analysis,
                         news_sentiment_analysis, reddit_sentiment_analysis,
                         current_price, Decide(scored))

-----------------------------------------------------------------------------
(* The technical adapter's crossover detection.  A price history is seen
   through what the detection reads of it: its length and the last two values
   of each rolling series; a value is a number or NaN (a rolling mean whose
   window is not full, or a gap in the closes), and every comparison with
   NaN is false *)

NaN == [nan |-> TRUE, v |-> 0]

Num(x) == [nan |-> FALSE, v |-> x]

FloatLt(a, b) == ~a.nan /\ ~b.nan /\ a.v < b.v

FloatLe(a, b) == ~a.nan /\ ~b.nan /\ a.v <= b.v

\* d1 updated with the entries of d2
Update(d1, d2) ==
    [k \in DOMAIN d1 \cup DOMAIN d2 |-> IF k \in DOMAIN d2 THEN d2[k] ELSE d1[k]]

\* series.iloc[-1], and series.iloc[-2] if len(series) > 1 else series.iloc[-1]
Current(series) == series[2]

Previous(series, len) == IF len > 1 THEN series[1] ELSE series[2]

\* mutant: the two crossings tested independently, on non-strict comparisons
IndependentCrossBlock(prev_fast, prev_slow, current_fast, current_slow, up, down) ==
    Update(Update([k \in {up, down} |-> FALSE],
                  IF FloatLe(prev_fast, prev_slow) /\ FloatLe(current_slow, current_fast)
                  THEN [k \in {up} |-> TRUE] ELSE EmptyDict),
           IF FloatLe(prev_slow, prev_fast) /\ FloatLe(current_fast, current_slow)
           THEN [k \in {down} |-> TRUE] ELSE EmptyDict)

\* the if / elif / else that sets the flags of one pair of averages
CrossBlock(prev_fast, prev_slow, current_fast, current_slow, up, down) ==
    IF FloatLe(prev_fast, prev_slow) /\ FloatLt(current_slow, current_fast)
    THEN [k \in {up} |-> TRUE]
    ELSE IF FloatLe(prev_slow, prev_fast) /\ FloatLt(current_fast, current_slow)
    THEN [k \in {down} |-> TRUE]
    ELSE [k \in {up, down} |-> FALSE]

\* TechnicalAnalyzer.detect_ma_crossovers
detect_ma_crossovers(data) ==
    LET long ==
            IF data.len >= 200 THEN
                Update(Update(CrossBlock(Previous(data.sma_50, data.len),
                                         Previous(data.sma_200, data.len),
                                         Current(data.sma_50), Current(data.sma_200),
                                         "golden_cross", "death_cross"),
                              IF FloatLe(Previous(data.sma_50, data.len),
                                         Previous(data.sma_200, data.len))
                                 /\ FloatLt(Current(data.sma_200), Current(data.sma_50))
                              THEN [golden_cross_signal |->
                                        "Strong Bullish - Golden Cross detected!"]
                              ELSE IF FloatLe(Previous(data.sma_200, data.len),
                                              Previous(data.sma_50, data.len))
                                      /\ FloatLt(Current(data.sma_50), Current(data.sma_200))
                              THEN [death_cross_signal |->
                                        "Strong Bearish - Death Cross detected!"]
                              ELSE EmptyDict),
                       [sma_50_vs_200 |->
                            IF FloatLt(Current(data.sma_200), Current(data.sma_50))
                            THEN "above" ELSE "below"])
            ELSE EmptyDict
        short ==
            IF data.len >= 21 THEN
                Update(CrossBlock(Previous(data.ema_9, data.len),
                                  Previous(data.ema_21, data.len),
                                  Current(data.ema_9), Current(data.ema_21),
                                  "short_term_bullish_cross", "short_term_bearish_cross"),
                       [ema_9_vs_21 |->
                            IF FloatLt(Current(data.ema_21), Current(data.ema_9))
                            THEN "above" ELSE "below"])
            ELSE EmptyDict
    IN  Update(long, short)

\* the number of true entries of a tuple of booleans
CountTrue(flags) == Cardinality({i \in DOMAIN flags : flags[i]})

\* TechnicalAnalyzer.analyze_ma_trend: data.above_sma[i] and data.above_ema[i]
\* say whether the close is above the SMA and the EMA of the i-th of the
\* periods 20, 50, 200
analyze_ma_trend(data) ==
    LET periods == <<20, 50, 200>>
        used == {i \in 1 .. 3 : data.len >= periods[i]}
        bullish_count == Cardinality({i \in used : data.above_sma[i]})
                         + Cardinality({i \in used : data.above_ema[i]})
        total_signals == 2 * Cardinality(used)
        bearish_count == total_signals - bullish_count
        overall_trend ==
            IF total_signals = 0 THEN "neutral"
            ELSE IF 10 * bullish_count >= 7 * total_signals THEN "strong_uptrend"
            ELSE IF 10 * bullish_count >= 5 * total_signals THEN "uptrend"
            ELSE IF 10 * bullish_count >= 3 * total_signals THEN "neutral"
            ELSE "downtrend"
    IN  [overall_trend |-> overall_trend,
         recommendation |-> CASE overall_trend \in {"strong_uptrend", "uptrend"} -> "buy"
                              [] overall_trend = "neutral" -> "hold"
                              [] OTHER -> "sell",
         bullish_signals |-> bullish_count,
         bearish_signals |-> bearish_count]

\* TechnicalAnalyzer.calculate_moving_averages: the ema_147 entry, the one
\* the engine reads
calculate_moving_averages(data) ==
    IF data.len >= 147
    THEN [ema_147 |-> PyDict([value |-> data.ema_147,
                             price_vs_ma |-> IF data.close > data.ema_147
                                             THEN "above" ELSE "below"])]
    ELSE EmptyDict

\* TechnicalAnalyzer.analyze; the histogram is macd_line - signal_line
analyze(data) ==
    LET current_rsi == data.current_rsi
        current_macd == data.current_macd
        current_signal == data.current_signal
        current_histogram == current_macd - current_signal
        prev_histogram == IF data.len > 1 THEN data.prev_histogram ELSE 0
        rsi_signal == IF current_rsi > 70 THEN "overbought"
                      ELSE IF current_rsi < 30 THEN "oversold" ELSE "neutral"
        rsi_recommendation == IF current_rsi > 70 THEN "sell"
                              ELSE IF current_rsi < 30 THEN "buy" ELSE "hold"
        macd_signal ==
            IF current_macd > current_signal THEN
                IF prev_histogram < 0 /\ current_histogram > 0
                THEN "bullish_crossover" ELSE "bullish"
            ELSE IF current_macd < current_signal THEN
                IF prev_histogram > 0 /\ current_histogram < 0
                THEN "bearish_crossover" ELSE "bearish"
            ELSE "neutral"
        macd_recommendation ==
            IF current_macd > current_signal THEN "buy"
            ELSE IF current_macd < current_signal THEN "sell" ELSE "hold"
        moving_averages == calculate_moving_averages(data)
        ma_crossovers == detect_ma_crossovers(data)
        ma_trend == analyze_ma_trend(data)
        buy_signals == CountTrue(<<rsi_recommendation = "buy",
                                   macd_recommendation = "buy",
                                   ma_trend.recommendation = "buy",
                                   Get(ma_crossovers, "golden_cross", FALSE),
                                   Get(ma_crossovers, "short_term_bullish_cross", FALSE)>>)
        sell_signals == CountTrue(<<rsi_recommendation = "sell",
                                    macd_recommendation = "sell",
                                    ma_trend.recommendation = "sell",
                                    Get(ma_crossovers, "death_cross", FALSE),
                                    Get(ma_crossovers, "short_term_bearish_cross", FALSE)>>)
        total_indicators == 5
    IN  [rsi |-> [value |-> current_rsi, signal |-> rsi_signal,
                  recommendation |-> rsi_recommendation],
         macd |-> [macd_line |-> current_macd, signal_line |-> current_signal,
                   histogram |-> current_histogram, signal |-> macd_signal,
                   recommendation |-> macd_recommendation],
         moving_averages |-> moving_averages,
         ma_crossovers |-> ma_crossovers,
         ma_trend |-> PyDict(ma_trend),
         overall |-> [recommendation |-> IF buy_signals > sell_signals THEN "buy"
                                         ELSE IF sell_signals > buy_signals THEN "sell"
                                         ELSE "hold",
                      confidence |-> IF buy_signals > sell_signals
                                     THEN Round2((buy_signals * One) \div total_indicators)
                                     ELSE IF sell_signals > buy_signals
                                     THEN Round2((sell_signals * One) \div total_indicators)
                                     ELSE Pct(50),
                      buy_signals |-> buy_signals,
                      sell_signals |-> sell_signals,
                      total_indicators |-> total_indicators]]

-----------------------------------------------------------------------------
(* The sentiment adapter.  An article is seen through the compound score
   analyze_text gives its headline; the per-article list, the median and the
   three ratios of the returned dict are left out, nothing reads them *)

\* analyze_article: the classification of one compound score
Classification(compound) ==
    IF compound >= Pct(5) THEN "positive"
    ELSE IF compound <= -Pct(5) THEN "negative"
    ELSE "neutral"

RECURSIVE Sum(_)
Sum(scores) == IF scores = <<>> THEN 0 ELSE Head(scores) + Sum(Tail(scores))

\* SentimentAnalyzer.analyze_articles
analyze_articles(articles) ==
    IF articles = <<>>
    THEN [overall_sentiment |-> "neutral", average_compound |-> 0, article_count |-> 0,
          positive_count |-> 0, negative_count |-> 0, neutral_count |-> 0]
    ELSE
    LET n == Len(articles)
        total == Sum(articles)
        Count(c) == Cardinality({i \in 1 .. n : Classification(articles[i]) = c})
        positive_count == Count("positive")
        negative_count == Count("negative")
        neutral_count == Count("neutral")
        \* avg_compound = total / n, compared without dividing
        positive == total >= Pct(5) * n
        negative == total <= -Pct(5) * n
        most == Max(positive_count, Max(negative_count, neutral_count))
    IN  [overall_sentiment |-> IF positive THEN "positive"
                               ELSE IF negative THEN "negative" ELSE "neutral",
         recommendation |-> IF positive THEN "buy"
                            ELSE IF negative THEN "sell" ELSE "hold",
         \* round(sentiment_ratio * 0.5 + abs(avg_compound) * 0.5, 2)
         confidence |-> RoundHalfEven(most * One + Abs(total), 2 * n * (One \div 100))
                            * (One \div 100),
         \* round(avg_compound, 3)
         average_compound |->
             IF total >= 0
             THEN RoundHalfEven(total, n * (One \div 1000)) * (One \div 1000)
             ELSE -(RoundHalfEven(-total, n * (One \div 1000)) * (One \div 1000)),
         article_count |-> n,
         positive_count |-> positive_count,
         negative_count |-> negative_count,
         neutral_count |-> neutral_count]

-----------------------------------------------------------------------------
(* Inputs: what the adapters hand to the engine *)

CurrentPrices == {64000}

\* TechnicalAnalyzer.analyze: the rsi entry
RsiEntry(value) ==
    [value |-> value,
     signal |-> IF value > 70 THEN "overbought"
                ELSE IF value < 30 THEN "oversold" ELSE "neutral"]

RsiValues == {25, 50, 65, 95}

MacdEntries ==
    {[signal |-> "bullish", histogram |-> 500],
     [signal |-> "bullish", histogram |-> 495],
     [signal |-> "bearish", histogram |-> -2000],
     [signal |-> "neutral", histogram |-> 0]}

MaTrends == {"strong_bullish", "neutral", "strong_bearish"}

\* TechnicalAnalyzer.detect_ma_crossovers sets one flag alone when it fires
MaCrossovers ==
    {[golden_cross |-> FALSE, death_cross |-> FALSE],
     [golden_cross |-> TRUE],
     [death_cross |-> TRUE]}

\* moving_averages: no ema_147 entry (short history), a bare number (what the
\* engine multiplies), or the record calculate_moving_averages stores
MovingAverages ==
    {EmptyDict,
     [ema_147 |-> PyFloat(58000)],
     [ema_147 |-> PyFloat(70000)],
     [ema_147 |-> PyDict([value |-> 58000, price_vs_ma |-> "above"])]}

TechnicalAnalysis(rsi_value, macd, ma_trend, ma_crossovers, moving_averages) ==
    [rsi |-> RsiEntry(rsi_value),
     macd |-> macd,
     ma_trend |-> PyStr(ma_trend),
     ma_crossovers |-> ma_crossovers,
     moving_averages |-> moving_averages,
     overall |-> [recommendation |-> "buy", confidence |-> Pct(60)]]

\* BitcoinPowerLaw.analyze: the corridor is fair value / 2.5 .. fair value * 2.5
PowerLawAnalysis(status, fair_value) ==
    [status |-> status,
     fair_value |-> fair_value,
     support_value |-> (fair_value * 2) \div 5,
     resistance_value |-> (fair_value * 5) \div 2]

PowerLawAnalyses ==
    {PowerLawAnalysis("Deep Value", 200000),
     PowerLawAnalysis("Bubble Risk", 20000)}
    \cup {PowerLawAnalysis("Fair Value Zone", fv) : fv \in {100000, 64000, 40000}}

\* SentimentAnalyzer.analyze_articles, for a non-empty article list
SentimentAnalysis(average_compound, article_count) ==
    [overall_sentiment |-> IF average_compound >= Pct(5) THEN "positive"
                           ELSE IF average_compound <= -Pct(5) THEN "negative"
                           ELSE "neutral",
     recommendation |-> IF average_compound >= Pct(5) THEN "buy"
                        ELSE IF average_compound <= -Pct(5) THEN "sell"
                        ELSE "hold",
     confidence |-> Round2((One + Abs(average_compound)) \div 2),
     average_compound |-> average_compound,
     article_count |-> article_count]

RedditCompounds == {Pct(10), Pct(15), Pct(40), Pct(85), Pct(92)}

NewsCompounds == {Pct(30), Pct(90)}

Arguments(power_law_analysis, technical_analysis, news_sentiment_analysis, reddit_sentiment_analysis, current_price) ==
    [power_law_analysis |-> power_law_analysis,
     technical_analysis |-> technical_analysis,
     news_sentiment_analysis |-> news_sentiment_analysis,
     reddit_sentiment_analysis |-> reddit_sentiment_analysis,
     current_price |-> current_price]

\* argument sets in which every adapter output is present
CompleteArguments ==
    {Arguments(pl, TechnicalAnalysis(v, m, t, c, ma),
               SentimentAnalysis(n, 25), SentimentAnalysis(r, 40), p) :
        pl \in PowerLawAnalyses, v \in RsiValues, m \in MacdEntries, t \in MaTrends,
        c \in MaCrossovers, ma \in MovingAverages, n \in NewsCompounds,
        r \in RedditCompounds, p \in CurrentPrices}

BaseTechnical ==
    TechnicalAnalysis(50, [signal |-> "bullish", histogram |-> 500], "bullish",
                      [golden_cross |-> TRUE], EmptyDict)

\* argument sets with one adapter field missing
IncompleteArguments ==
    {Arguments(PowerLawAnalysis("Fair Value Zone", 64000), ta,
               SentimentAnalysis(Pct(30), 25), SentimentAnalysis(Pct(40), 40), 64000) :
        ta \in {Without(BaseTechnical, k) :
                    k \in {"rsi", "macd", "ma_trend", "ma_crossovers",
                           "moving_averages", "overall"}}
               \cup {[BaseTechnical EXCEPT !["rsi"] = Without(@, "value")],
                     [BaseTechnical EXCEPT !["macd"] = Without(@, "histogram")]}}
    \cup
    {Arguments(pl, BaseTechnical,
               SentimentAnalysis(Pct(30), 25), SentimentAnalysis(Pct(40), 40), 64000) :
        pl \in {PowerLawAnalysis("Fair Value Zone", 0),
                Without(PowerLawAnalysis("Fair Value Zone", 64000), "support_value"),
                Without(PowerLawAnalysis("Fair Value Zone", 64000), "status")}}
    \cup
    {Arguments(PowerLawAnalysis("Fair Value Zone", 64000), BaseTechnical,
               Without(SentimentAnalysis(Pct(30), 25), "recommendation"),
               SentimentAnalysis(Pct(40), 40), 64000)}

ArgumentSets == CompleteArguments \cup IncompleteArguments

\* constructor arguments
WeightTriples ==
    {<<Pct(40), Pct(30), Pct(30)>>,
     <<0, 0, One>>,
     <<Pct(40), Pct(30), Pct(30) + Pct(1) \div 2>>,
     <<Pct(40), Pct(30), Pct(32)>>,
     <<Pct(40), Pct(30), Pct(28)>>,
     <<Pct(50), Pct(50), Pct(50)>>,
     <<-Pct(10), Pct(60), Pct(50)>>,
     <<Pct(110), 0, -Pct(10)>>,
     <<0, Pct(110), 0>>}

-----------------------------------------------------------------------------
(* One engine, one evaluation at a time *)

NoCall == [made |-> FALSE]

NoResult == [outcome |-> "none"]

NotMapped == [recommendation |-> "none"]

NoCtor == [made |-> FALSE]

NoProbe == [fn |-> "none"]

NoReturn == [outcome |-> "not called"]

NoPrev == [fn |-> "none"]

NoHist == [op |-> "none"]

NoRequest == [pc |-> "idle"]

\* the API process and the launcher are not running
NoService ==
    /\ cache = EmptyDict
    /\ now = 0
    /\ hist = NoHist
    /\ req = NoRequest
    /\ prod = [pc |-> "not started"]

\* no engine has been constructed and no scorer called
NoEngineUse ==
    /\ ctor = NoCtor
    /\ engine = NoEngine
    /\ call = NoCall
    /\ result = NoResult
    /\ score = 0
    /\ mapped = NotMapped
    /\ frames = <<>>
    /\ probe = NoProbe
    /\ ret = NoReturn
    /\ prev = NoPrev

Init ==
    /\ ctor = NoCtor
    /\ engine = NoEngine
    /\ call = NoCall
    /\ result = NoResult
    /\ score = 0
    /\ mapped = NotMapped
    /\ frames = <<>>
    /\ probe = NoProbe
    /\ ret = NoReturn
    /\ prev = NoPrev
    /\ NoService

Idle == engine.status = "constructed" /\ ~call.made

Construct(w) ==
    /\ engine.status = "none"
    /\ ctor' = [made |-> TRUE, reddit_weight |-> w[1], news_weight |-> w[2],
                 technical_weight |-> w[3]]
    /\ engine' = __init__(w[1], w[2], w[3])
    /\ UNCHANGED <<call, result, score, mapped, frames, probe, ret, prev, serviceVars>>

Evaluate(a) ==
    /\ Idle
    /\ call' = [made |-> TRUE, args |-> a]
    /\ result' = generate_recommendation(engine, a.power_law_analysis,
                                         a.technical_analysis,
                                         a.news_sentiment_analysis,
                                         a.reddit_sentiment_analysis,
                                         a.current_price)
    /\ UNCHANGED <<ctor, engine, score, mapped, frames, probe, ret, prev, serviceVars>>

\* the caller drops the result
Discard ==
    /\ call.made
    /\ call' = NoCall
    /\ result' = NoResult
    /\ UNCHANGED <<ctor, engine, score, mapped, frames, probe, ret, prev, serviceVars>>

Next ==
    \/ \E w \in WeightTriples : Construct(w)
    \/ Idle /\ \E a \in ArgumentSets : Evaluate(a)
    \/ Discard

Spec == Init /\ [][Next]_vars

-----------------------------------------------------------------------------
(* Direct calls of the decision mapper *)

GridN == 100

\* scores from -1.2 to 1.2 in steps of 1/GridN, and the neighbours of the four
\* thresholds (0.6999 is Pct(70) - 3)
ScoreGrid ==
    {(k * One) \div GridN : k \in -(GridN + GridN \div 5) .. (GridN + GridN \div 5)}
    \cup {t + d : t \in {Pct(30), Pct(70), -Pct(30), -Pct(70)}, d \in {-3, -1, 0, 1, 3}}

InitMapper ==
    /\ ctor = NoCtor
    /\ engine = NoEngine
    /\ call = NoCall
    /\ result = NoResult
    /\ score \in ScoreGrid
    /\ mapped = NotMapped
    /\ frames = <<>>
    /\ probe = NoProbe
    /\ ret = NoReturn
    /\ prev = NoPrev
    /\ NoService

MapScore ==
    /\ mapped = NotMapped
    /\ mapped' = _score_to_recommendation(score)
    /\ UNCHANGED <<ctor, engine, call, result, score, frames, probe, ret, prev, serviceVars>>

NextMapper == MapScore

SpecMapper == InitMapper /\ [][NextMapper]_vars

-----------------------------------------------------------------------------
(* Evaluations in progress at the same time on one engine, as when the web
   server's worker threads call generate_recommendation; each evaluation
   advances through the three stages of the function with its own
   activation record *)

MaxCalls == 2

Callers == 1 .. MaxCalls

IdleFrame == [pc |-> "idle"]

DetArguments ==
    {Arguments(PowerLawAnalysis("Fair Value Zone", 64000),
               TechnicalAnalysis(v, [signal |-> "bullish", histogram |-> 500],
                                 "strong_bullish", [golden_cross |-> TRUE], ma),
               SentimentAnalysis(Pct(30), 25), SentimentAnalysis(r, 40), 64000) :
        v \in {25, 95}, r \in {Pct(40), Pct(92)},
        ma \in {EmptyDict, [ema_147 |-> PyDict([value |-> 58000, price_vs_ma |-> "above"])]}}

DetWeightTriples == {<<Pct(40), Pct(30), Pct(30)>>, <<0, 0, One>>}

InitDet ==
    /\ \E w \in DetWeightTriples :
          /\ ctor = [made |-> TRUE, reddit_weight |-> w[1], news_weight |-> w[2],
                     technical_weight |-> w[3]]
          /\ engine = __init__(w[1], w[2], w[3])
    /\ call = NoCall
    /\ result = NoResult
    /\ score = 0
    /\ mapped = NotMapped
    /\ frames = [i \in Callers |-> IdleFrame]
    /\ probe = NoProbe
    /\ ret = NoReturn
    /\ prev = NoPrev
    /\ NoService

Enter(i, a) ==
    /\ frames[i].pc = "idle"
    /\ frames' = [frames EXCEPT ![i] = [pc |-> "entered", args |-> a]]
    /\ UNCHANGED <<ctor, engine, call, result, score, mapped, probe, ret, prev, serviceVars>>

\* lines 208-241
ScoreStep(i) ==
    /\ frames[i].pc = "entered"
    /\ LET a == frames[i].args
           l == ScoreFactors(a.power_law_analysis, a.technical_analysis,
                             a.news_sentiment_analysis, a.reddit_sentiment_analysis,
                             a.current_price)
       IN  frames' = [frames EXCEPT ![i] =
                         IF l.outcome = "raised"
                         THEN [pc |-> "returned", args |-> a, result |-> l]
                         ELSE [pc |-> "scored", args |-> a, locals |-> l]]
    /\ UNCHANGED <<ctor, engine, call, result, score, mapped, probe, ret, prev, serviceVars>>

\* mutant: the factor scores are kept in one place shared by all evaluations,
\* so a stage reads the scores the latest other evaluation left there
DecideStepShared(i) ==
    /\ frames[i].pc = "scored"
    /\ LET others == {j \in Callers : j # i /\ frames[j].pc \in {"scored", "decided"}}
           src == IF others = {} THEN i ELSE CHOOSE j \in others : TRUE
       IN  frames' = [frames EXCEPT ![i] =
                         [pc |-> "decided", args |-> frames[i].args,
                          locals |-> Decide(frames[src].locals)]]
    /\ UNCHANGED <<ctor, engine, call, result, score, mapped, probe, ret, prev, serviceVars>>

\* lines 243-266
DecideStep(i) ==
    /\ frames[i].pc = "scored"
    /\ frames' = [frames EXCEPT ![i] =
                     [pc |-> "decided", args |-> frames[i].args,
                      locals |-> Decide(frames[i].locals)]]
    /\ UNCHANGED <<ctor, engine, call, result, score, mapped, probe, ret, prev, serviceVars>>

\* lines 268-366
ReturnStep(i) ==
    /\ frames[i].pc = "decided"
    /\ LET a == frames[i].args
       IN  frames' = [frames EXCEPT ![i] =
                         [pc |-> "returned", args |-> a,
                          result |-> BuildResult(engine, a.power_law_analysis,
                                                 a.technical_analysis,
                                                 a.news_sentiment_analysis,
                                                 a.reddit_sentiment_analysis,
                                                 a.current_price, frames[i].locals)]]
    /\ UNCHANGED <<ctor, engine, call, result, score, mapped, probe, ret, prev, serviceVars>>

\* the caller drops the result; the activation record is gone
Release(i) ==
    /\ frames[i].pc = "returned"
    /\ frames' = [frames EXCEPT ![i] = IdleFrame]
    /\ UNCHANGED <<ctor, engine, call, result, score, mapped, probe, ret, prev, serviceVars>>

NextDet ==
    \E i \in Callers :
        \/ \E a \in DetArguments : Enter(i, a)
        \/ ScoreStep(i)
        \/ DecideStep(i)
        \/ ReturnStep(i)
        \/ Release(i)

SpecDet == InitDet /\ [][NextDet]_vars

-----------------------------------------------------------------------------
(* Direct calls of the scorers, the target calculator and the crossover
   detection, on an engine built with the default weights; an RSI score or a
   whole evaluation may be followed by a second call, to compare the two *)

RsiGrid == (0 .. 100) \cup {-10, 110, 130}

RsiProbes == {[fn |-> "_analyze_rsi", rsi_value |-> v] : v \in RsiGrid}

ProbeTrends == {"strong_bullish", "bullish", "bearish", "strong_bearish", "neutral"}

ProbeCrossovers ==
    {EmptyDict,
     [golden_cross |-> FALSE, death_cross |-> FALSE],
     [golden_cross |-> TRUE],
     [death_cross |-> TRUE],
     [golden_cross |-> TRUE, death_cross |-> TRUE]}

\* the ema_147 entry: absent, a bare number, or the record the adapter stores
ProbeMovingAverages ==
    {EmptyDict,
     [ema_147 |-> PyFloat(58000)],
     [ema_147 |-> PyFloat(64000)],
     [ema_147 |-> PyFloat(70000)],
     [ema_147 |-> PyDict([value |-> 58000, price_vs_ma |-> "above"])],
     [ema_147 |-> PyDict([value |-> 70000, price_vs_ma |-> "below"])]}

MaProbes ==
    {[fn |-> "_analyze_moving_averages", current_price |-> 64000,
      technical_analysis |-> [moving_averages |-> ma],
      ma_trend |-> t, ma_crossovers |-> c] :
        t \in ProbeTrends, c \in ProbeCrossovers, ma \in ProbeMovingAverages}

\* prices around the -20 %, -10 %, +20 % and +50 % deviations of a fair value
\* of 100, and a fair value of 0
PlProbes ==
    {[fn |-> "_analyze_power_law", status |-> st, current_price |-> p, fair_value |-> fv] :
        st \in {"Deep Value", "Bubble Risk", "Fair Value Zone"},
        p \in {40, 79, 80, 81, 89, 90, 91, 100, 119, 120, 121, 149, 150, 151, 200},
        fv \in {100, 0}}

Histograms == {-2000, -1000, -500, -1, 0, 1, 500, 1000, 2000}

MacdProbes ==
    {[fn |-> "_analyze_macd", macd |-> m] :
        m \in {[signal |-> sg, histogram |-> h] :
                   sg \in {"bullish", "bearish", "neutral"}, h \in Histograms}
              \cup {[signal |-> "bullish"], [signal |-> "bearish"], EmptyDict}}

\* scores in steps of 0.05 and the neighbours of the thresholds
SentimentScores ==
    {(k * One) \div 20 : k \in -20 .. 20}
    \cup {Pct(14), Pct(16), Pct(84), Pct(86), Pct(31), Pct(61), -Pct(31), -Pct(11)}

SentimentProbes ==
    {[fn |-> "_analyze_sentiment", reddit_score |-> r, news_score |-> n] :
        r \in SentimentScores, n \in SentimentScores}

ConfidenceGrid == {(k * One) \div GridN : k \in 0 .. GridN}

TargetsProbes ==
    {[fn |-> "_calculate_targets", current_price |-> p, recommendation |-> r,
      confidence |-> c] :
        p \in {1, 333, 64000, 64001},
        r \in {"strong_buy", "buy", "hold", "sell", "strong_sell", "CONTRARIAN_ALERT"},
        c \in ConfidenceGrid}

SeriesValues == {NaN, Num(1), Num(2)}

SeriesTails == {<<a, b>> : a \in SeriesValues, b \in SeriesValues}

\* histories of 20, 21, 199, 200 and 201 days; a series the detection does not
\* compute at that length is left as NaN
Histories ==
    {[len |-> n, sma_50 |-> <<NaN, NaN>>, sma_200 |-> <<NaN, NaN>>,
      ema_9 |-> <<NaN, NaN>>, ema_21 |-> <<NaN, NaN>>] : n \in {1, 20}}
    \cup {[len |-> n, sma_50 |-> <<NaN, NaN>>, sma_200 |-> <<NaN, NaN>>,
           ema_9 |-> e9, ema_21 |-> e21] :
              n \in {21, 199}, e9 \in SeriesTails, e21 \in SeriesTails}
    \cup {[len |-> n, sma_50 |-> s50, sma_200 |-> s200, ema_9 |-> e9, ema_21 |-> e21] :
              n \in {200, 201}, s50 \in SeriesTails, s200 \in SeriesTails,
              e9 \in {<<Num(1), Num(2)>>, <<Num(2), Num(1)>>},
              e21 \in {<<Num(1), Num(1)>>, <<Num(2), Num(2)>>}}

CrossoverProbes == {[fn |-> "detect_ma_crossovers", data |-> d] : d \in Histories}

\* evaluations that differ in the RSI value, around the zone edges
EvaluateProbes ==
    {[fn |-> "generate_recommendation",
      args |-> Arguments(pl, TechnicalAnalysis(v, m, "bullish", [golden_cross |-> FALSE,
                                                                  death_cross |-> FALSE],
                                               EmptyDict),
                         SentimentAnalysis(Pct(30), 25), SentimentAnalysis(Pct(40), 40),
                         64000)] :
        pl \in {PowerLawAnalysis("Deep Value", 200000),
                PowerLawAnalysis("Fair Value Zone", 64000)},
        m \in {[signal |-> "bullish", histogram |-> 500],
               [signal |-> "bearish", histogram |-> -2000]},
        v \in {0, 25, 30, 31, 39, 40, 50, 60, 61, 69, 70, 85, 100}}

\* the backtest's stand-in for both sentiment inputs
MockSentiment ==
    [overall_sentiment |-> "neutral", recommendation |-> "hold", confidence |-> Pct(50),
     average_compound |-> 0, article_count |-> 0,
     positive_count |-> 0, negative_count |-> 0, neutral_count |-> 0]

\* price histories for the analysis pipeline: 21, 60 and 201 days, the MACD
\* line above, below and on its signal line, the histogram having changed
\* sign or not, and the close above all, none or the shortest of the averages
AnalyzeData ==
    {[len |-> n, close |-> 64000, ema_147 |-> 58000,
      sma_50 |-> IF n >= 200 THEN s50 ELSE <<NaN, NaN>>,
      sma_200 |-> IF n >= 200 THEN <<Num(1), Num(1)>> ELSE <<NaN, NaN>>,
      ema_9 |-> <<Num(1), Num(1)>>, ema_21 |-> <<Num(1), Num(1)>>,
      current_rsi |-> 50, current_macd |-> m[1], current_signal |-> m[2],
      prev_histogram |-> ph, above_sma |-> as, above_ema |-> ae] :
        n \in {21, 60, 201},
        s50 \in {<<Num(1), Num(2)>>, <<Num(1), Num(1)>>},
        m \in {<<300, 100>>, <<100, 300>>, <<100, 100>>},
        ph \in {-50, 50},
        as \in {<<TRUE, TRUE, TRUE>>, <<FALSE, FALSE, FALSE>>, <<TRUE, FALSE, FALSE>>},
        ae \in {<<TRUE, TRUE, TRUE>>, <<FALSE, FALSE, FALSE>>, <<TRUE, FALSE, FALSE>>}}

AnalyzeProbes == {[fn |-> "analyze", data |-> d] : d \in AnalyzeData}

\* headline compound scores, around the +-0.05 classification thresholds
ArticleCompounds == {-Pct(60), -Pct(5), 0, Pct(4), Pct(5), One}

\* article lists of up to three articles, the empty list included
ArticleLists ==
    {<<>>} \cup {<<a>> : a \in ArticleCompounds}
           \cup {<<a, b>> : a \in ArticleCompounds, b \in ArticleCompounds}
           \cup {<<a, b, c>> : a \in ArticleCompounds, b \in ArticleCompounds,
                               c \in ArticleCompounds}

ArticlesProbes == {[fn |-> "analyze_articles", articles |-> l] : l \in ArticleLists}

Probes ==
    RsiProbes \cup MaProbes \cup PlProbes \cup MacdProbes \cup SentimentProbes
    \cup TargetsProbes \cup CrossoverProbes \cup EvaluateProbes \cup AnalyzeProbes
    \cup ArticlesProbes

InitScorers ==
    /\ ctor = [made |-> TRUE, reddit_weight |-> Pct(40), news_weight |-> Pct(30),
               technical_weight |-> Pct(30)]
    /\ engine = __init__(Pct(40), Pct(30), Pct(30))
    /\ call = NoCall
    /\ result = NoResult
    /\ score = 0
    /\ mapped = NotMapped
    /\ frames = <<>>
    /\ probe \in Probes
    /\ ret = NoReturn
    /\ prev = NoPrev
    /\ NoService

Pending(fn) == probe.fn = fn /\ ret = NoReturn

CallRsi ==
    /\ Pending("_analyze_rsi")
    /\ ret' = _analyze_rsi(probe.rsi_value)
    /\ UNCHANGED <<ctor, engine, call, result, score, mapped, frames, probe, prev, serviceVars>>

CallMovingAverages ==
    /\ Pending("_analyze_moving_averages")
    /\ ret' = _analyze_moving_averages(probe.current_price, probe.technical_analysis,
                                       PyStr(probe.ma_trend), probe.ma_crossovers)
    /\ UNCHANGED <<ctor, engine, call, result, score, mapped, frames, probe, prev, serviceVars>>

CallPowerLaw ==
    /\ Pending("_analyze_power_law")
    /\ ret' = _analyze_power_law(probe.status, probe.current_price, probe.fair_value,
                                 EmptyDict)
    /\ UNCHANGED <<ctor, engine, call, result, score, mapped, frames, probe, prev, serviceVars>>

CallMacd ==
    /\ Pending("_analyze_macd")
    /\ ret' = _analyze_macd(probe.macd)
    /\ UNCHANGED <<ctor, engine, call, result, score, mapped, frames, probe, prev, serviceVars>>

CallSentiment ==
    /\ Pending("_analyze_sentiment")
    /\ ret' = _analyze_sentiment(probe.reddit_score, probe.news_score)
    /\ UNCHANGED <<ctor, engine, call, result, score, mapped, frames, probe, prev, serviceVars>>

CallTargets ==
    /\ Pending("_calculate_targets")
    /\ ret' = _calculate_targets(probe.current_price, probe.recommendation,
                                 probe.confidence)
    /\ UNCHANGED <<ctor, engine, call, result, score, mapped, frames, probe, prev, serviceVars>>

CallCrossovers ==
    /\ Pending("detect_ma_crossovers")
    /\ ret' = detect_ma_crossovers(probe.data)
    /\ UNCHANGED <<ctor, engine, call, result, score, mapped, frames, probe, prev, serviceVars>>

CallEvaluate ==
    /\ Pending("generate_recommendation")
    /\ ret' = generate_recommendation(engine, probe.args.power_law_analysis,
                                      probe.args.technical_analysis,
                                      probe.args.news_sentiment_analysis,
                                      probe.args.reddit_sentiment_analysis,
                                      probe.args.current_price)
    /\ UNCHANGED <<ctor, engine, call, result, score, mapped, frames, probe, prev, serviceVars>>

\* the backtest's step: the technical analysis of the window, handed to the
\* engine with a power-law analysis and the stand-in sentiment
CallAnalyze ==
    /\ Pending("analyze")
    /\ LET technical_results == analyze(probe.data)
       IN  ret' = [technical_analysis |-> technical_results,
                   result |-> generate_recommendation(
                                  engine, PowerLawAnalysis("Fair Value Zone", 64000),
                                  technical_results, MockSentiment, MockSentiment,
                                  probe.data.close)]
    /\ UNCHANGED <<ctor, engine, call, result, score, mapped, frames, probe, prev, serviceVars>>

\* the analysis of an article list, handed to the engine as both sentiment
\* inputs with otherwise valid inputs
CallAnalyzeArticles ==
    /\ Pending("analyze_articles")
    /\ LET sentiment == analyze_articles(probe.articles)
       IN  ret' = [sentiment |-> sentiment,
                   result |-> generate_recommendation(
                                  engine, PowerLawAnalysis("Fair Value Zone", 64000),
                                  TechnicalAnalysis(50, [signal |-> "bullish",
                                                         histogram |-> 500],
                                                    "bullish", EmptyDict, EmptyDict),
                                  sentiment, sentiment, 64000)]
    /\ UNCHANGED <<ctor, engine, call, result, score, mapped, frames, probe, prev, serviceVars>>

\* a second call of the same method, after the first has returned
Returning(fn) == probe.fn = fn /\ ret # NoReturn /\ prev = NoPrev

RsiAgain(p) ==
    /\ Returning("_analyze_rsi")
    /\ prev' = [fn |-> probe.fn, probe |-> probe, ret |-> ret]
    /\ probe' = p
    /\ ret' = _analyze_rsi(p.rsi_value)
    /\ UNCHANGED <<ctor, engine, call, result, score, mapped, frames, serviceVars>>

EvaluateAgain(p) ==
    /\ Returning("generate_recommendation")
    /\ prev' = [fn |-> probe.fn, probe |-> probe, ret |-> ret]
    /\ probe' = p
    /\ ret' = generate_recommendation(engine, p.args.power_law_analysis,
                                      p.args.technical_analysis,
                                      p.args.news_sentiment_analysis,
                                      p.args.reddit_sentiment_analysis,
                                      p.args.current_price)
    /\ UNCHANGED <<ctor, engine, call, result, score, mapped, frames, serviceVars>>

\* weights of a second engine: the web server's, a triple inside the
\* tolerance, and one without sentiment weight
OtherWeightTriples ==
    {<<Pct(25), Pct(15), Pct(60)>>,
     <<Pct(40), Pct(30), Pct(30) + Pct(1) \div 2>>,
     <<0, 0, One>>}

\* the same evaluation on a second engine, built with the weights w
EvaluateOnOther(w) ==
    /\ Returning("generate_recommendation")
    /\ __init__(w[1], w[2], w[3]).status = "constructed"
    /\ prev' = [fn |-> probe.fn, probe |-> probe, ret |-> ret]
    /\ probe' = [fn |-> "generate_recommendation", args |-> probe.args,
                 self |-> __init__(w[1], w[2], w[3])]
    /\ ret' = generate_recommendation(__init__(w[1], w[2], w[3]),
                                      probe.args.power_law_analysis,
                                      probe.args.technical_analysis,
                                      probe.args.news_sentiment_analysis,
                                      probe.args.reddit_sentiment_analysis,
                                      probe.args.current_price)
    /\ UNCHANGED <<ctor, engine, call, result, score, mapped, frames, serviceVars>>

NextScorers ==
    \/ CallRsi
    \/ CallMovingAverages
    \/ CallPowerLaw
    \/ CallMacd
    \/ CallSentiment
    \/ CallTargets
    \/ CallCrossovers
    \/ CallEvaluate
    \/ CallAnalyze
    \/ CallAnalyzeArticles
    \/ Returning("_analyze_rsi") /\ \E p \in RsiProbes : RsiAgain(p)
    \/ Returning("generate_recommendation") /\ \E p \in EvaluateProbes : EvaluateAgain(p)
    \/ \E w \in OtherWeightTriples : EvaluateOnOther(w)

SpecScorers == InitScorers /\ [][NextScorers]_vars

-----------------------------------------------------------------------------
(* The in-memory cache.  The dict maps a key to the pair (value, expiry);
   the clock is read once by get and once by set *)

\* seconds between two readings of the clock in the model
TickSeconds == 30

\* clock readings after the first
MaxTicks == 3

\* mutant: an entry is still served at its expiry time
GetAtExpiry(self, key, time) ==
    IF Has(self, key) /\ time <= self[key].expiry
    THEN [value |-> self[key].value, _cache |-> self]
    ELSE [value |-> PyNone, _cache |-> Without(self, key)]

\* SimpleCache.get: the value returned, and the dict afterwards
get(self, key, time) ==
    IF Has(self, key)
    THEN IF time < self[key].expiry
         THEN [value |-> self[key].value, _cache |-> self]
         ELSE [value |-> PyNone, _cache |-> Without(self, key)]
    ELSE [value |-> PyNone, _cache |-> self]

\* SimpleCache.set: the dict afterwards
set(self, key, value, ttl, time) ==
    Update(self, [k \in {key} |-> [value |-> value, expiry |-> time + ttl]])

\* SimpleCache.clear: the dict afterwards
clear(self) == EmptyDict

CacheKeys == {"btc_price", "history"}

CacheValues == {PyFloat(64000), PyFloat(65000)}

Ttls == {0, TickSeconds, 2 * TickSeconds}

\* hist.stored remembers, for each key, the latest set not followed by a
\* clear; hist.before is the dict as the latest operation found it
InitCache ==
    /\ NoEngineUse
    /\ cache = EmptyDict
    /\ now = 0
    /\ hist = [op |-> "none", stored |-> EmptyDict]
    /\ req = NoRequest
    /\ prod = [pc |-> "not started"]

CacheSet(key, value, ttl) ==
    /\ cache' = set(cache, key, value, ttl, now)
    /\ hist' = [op |-> "set", key |-> key, time |-> now, returned |-> PyNone,
                before |-> cache,
                stored |-> Update(hist.stored,
                                  [k \in {key} |-> [value |-> value, time |-> now,
                                                    ttl |-> ttl]])]
    /\ UNCHANGED <<now, req, prod, engineVars>>

CacheGet(key) ==
    /\ LET r == get(cache, key, now)
       IN  /\ cache' = r._cache
           /\ hist' = [op |-> "get", key |-> key, time |-> now, returned |-> r.value,
                       before |-> cache, stored |-> hist.stored]
    /\ UNCHANGED <<now, req, prod, engineVars>>

CacheClear ==
    /\ cache' = clear(cache)
    /\ hist' = [op |-> "clear", key |-> "", time |-> now, returned |-> PyNone,
                before |-> cache, stored |-> EmptyDict]
    /\ UNCHANGED <<now, req, prod, engineVars>>

\* time passes
Tick ==
    /\ now < MaxTicks * TickSeconds
    /\ now' = now + TickSeconds
    /\ UNCHANGED <<cache, hist, req, prod, engineVars>>

NextCache ==
    \/ \E key \in CacheKeys, value \in CacheValues, ttl \in Ttls : CacheSet(key, value, ttl)
    \/ \E key \in CacheKeys : CacheGet(key)
    \/ CacheClear
    \/ Tick

SpecCache == InitCache /\ [][NextCache]_vars

-----------------------------------------------------------------------------
(* GET /api/price.  The handler has no await, so requests are handled one
   after the other; time passes while a provider is being asked.  hist holds
   the latest answer that came from a provider *)

\* mutant: CoinGecko is asked first
ProvidersCoingeckoFirst == <<"coingecko", "yfinance", "binance">>

providers == <<"yfinance", "coingecko", "binance">>

\* the ttl of cache.set("btc_price", price, ttl=60)
PriceTtl == 60

FetchedPrices == {64000, 65000}

\* PriceFetcher(provider).get_current_price(): what a call can do.  It raises,
\* or returns a price; for yfinance the price is info.get('regularMarketPrice',
\* info.get('currentPrice')), None when the ticker info has neither key
get_current_price(provider) ==
    {[provider |-> provider, raised |-> TRUE, error |-> provider, price |-> PyNone]}
    \cup {[provider |-> provider, raised |-> FALSE, error |-> "", price |-> PyFloat(p)] :
              p \in FetchedPrices}
    \cup (IF provider = "yfinance"
          THEN {[provider |-> provider, raised |-> FALSE, error |-> "", price |-> PyNone]}
          ELSE {})

InitPrice ==
    /\ NoEngineUse
    /\ cache = EmptyDict
    /\ now = 0
    /\ hist = NoHist
    /\ req = NoRequest
    /\ prod = [pc |-> "not started"]

\* a request arrives: the cache is looked up, and the request is answered
\* from it or goes on to the providers
CheckCache ==
    /\ req.pc \in {"idle", "answered"}
    /\ LET r == get(cache, "btc_price", now)
           cached_price == r.value
       IN  /\ cache' = r._cache
           /\ req' = IF cached_price # PyNone
                     THEN [pc |-> "answered", arrived |-> now, before |-> cache,
                           known |-> hist, consulted |-> <<>>,
                           answer |-> [status |-> 200, price |-> cached_price,
                                       currency |-> "USD", symbol |-> "BTC",
                                       cached |-> TRUE]]
                     ELSE [pc |-> "providers", arrived |-> now, before |-> cache,
                           known |-> hist, consulted |-> <<>>,
                           i |-> 1, last_error |-> PyNone]
    /\ UNCHANGED <<now, hist, prod, engineVars>>

\* one round of the loop over the providers
TryProvider(o) ==
    /\ req.pc = "providers"
    /\ o \in get_current_price(providers[req.i])
    /\ IF ~o.raised
       THEN /\ cache' = set(cache, "btc_price", o.price, PriceTtl, now)
            /\ hist' = [op |-> "fetched", price |-> o.price, time |-> now]
            /\ req' = [pc |-> "answered", arrived |-> req.arrived, before |-> req.before,
                       known |-> req.known, consulted |-> Append(req.consulted, o),
                       answer |-> [status |-> 200, price |-> o.price,
                                   currency |-> "USD", symbol |-> "BTC",
                                   provider |-> providers[req.i], cached |-> FALSE]]
       ELSE /\ UNCHANGED <<cache, hist>>
            /\ req' = IF req.i < Len(providers)
                      THEN [req EXCEPT !.i = @ + 1, !.last_error = PyStr(o.error),
                                       !.consulted = Append(@, o)]
                      ELSE [pc |-> "answered", arrived |-> req.arrived,
                            before |-> req.before, known |-> req.known,
                            consulted |-> Append(req.consulted, o),
                            answer |-> [status |-> 503,
                                        error |-> "Unable to fetch Bitcoin price from any provider",
                                        last_error |-> PyStr(o.error),
                                        tried_providers |-> providers]]
    /\ UNCHANGED <<now, prod, engineVars>>

NextPrice ==
    \/ CheckCache
    \/ \E n \in 1 .. Len(providers) : \E o \in get_current_price(providers[n]) : TryProvider(o)
    \/ Tick

SpecPrice == InitPrice /\ [][NextPrice]_vars

-----------------------------------------------------------------------------
(* The launcher.  prod.pc is the position of main; the child is the uvicorn
   process started by run_background_process.  A SIGINT reaches the launcher
   at any point; while the lambda of line 52 is installed it is what runs,
   otherwise the interpreter raises KeyboardInterrupt *)

\* SIGINTs delivered to the launcher in one run
MaxSignals == 3

\* exit codes of the child when it ends by itself
ExitCodes == {0, 1}

Launcher(pc, child) ==
    [pc |-> pc, child |-> child, rtn |-> 0, handler |-> "default",
     sigints |-> 0, handled |-> 0, sigint_while_running |-> FALSE,
     cleanups |-> 0, terminated |-> FALSE, killed |-> FALSE, warned |-> FALSE]

InitProd ==
    /\ NoEngineUse
    /\ cache = EmptyDict
    /\ now = 0
    /\ hist = NoHist
    /\ req = NoRequest
    /\ prod = Launcher("perform_npm_build", "none")

\* main, line 95: the front end is built (a failed build only warns)
Build ==
    /\ prod.pc = "perform_npm_build"
    /\ \E ok \in BOOLEAN : prod' = [prod EXCEPT !.pc = "Popen", !.warned = ~ok]
    /\ UNCHANGED <<cache, now, hist, req, engineVars>>

\* run_background_process, lines 33-49: the child is started, or Popen raises
\* with pro still None and the finally clause has nothing to clean up
Popen ==
    /\ prod.pc = "Popen"
    /\ \/ prod' = [prod EXCEPT !.pc = "signal", !.child = "running"]
       \/ prod' = [prod EXCEPT !.pc = "raised"]
    /\ UNCHANGED <<cache, now, hist, req, engineVars>>

\* line 52: signal.signal(SIGINT, lambda signum, frame: lambda: cleanup(pro)),
\* then the yield and process.wait() of main
InstallHandler ==
    /\ prod.pc = "signal"
    /\ prod' = [prod EXCEPT !.pc = "wait", !.handler = "lambda"]
    /\ UNCHANGED <<cache, now, hist, req, engineVars>>

\* the child ends: by itself, or on the SIGTERM or SIGKILL it was sent
ChildExits ==
    /\ prod.child = "running"
    /\ \E code \in ExitCodes :
          prod' = [prod EXCEPT !.child = "exited",
                               !.rtn = IF prod.killed THEN -9
                                       ELSE IF prod.terminated THEN -15 ELSE code]
    /\ UNCHANGED <<cache, now, hist, req, engineVars>>

\* main, lines 103-105: process.wait() returns, the with block is left
WaitReturns ==
    /\ prod.pc = "wait"
    /\ prod.child = "exited"
    /\ prod' = [prod EXCEPT !.pc = "cleanup", !.warned = @ \/ prod.rtn # 0]
    /\ UNCHANGED <<cache, now, hist, req, engineVars>>

\* a SIGINT is delivered to the launcher.  With the lambda installed the
\* handler runs: it builds and returns an inner lambda, which nothing calls.
\* Without it KeyboardInterrupt is raised: before the child exists main ends,
\* inside the try block of run_background_process the finally clause runs
Sigint ==
    /\ prod.pc \notin {"done", "raised"}
    /\ prod.sigints < MaxSignals
    /\ prod' =
          IF prod.handler = "lambda"
          THEN [prod EXCEPT !.sigints = @ + 1, !.handled = @ + 1,
                            !.sigint_while_running = @ \/ prod.child = "running"]
          ELSE IF prod.child = "none"
          THEN [prod EXCEPT !.sigints = @ + 1, !.pc = "raised"]
          ELSE [prod EXCEPT !.sigints = @ + 1, !.pc = "cleanup"]
    /\ UNCHANGED <<cache, now, hist, req, engineVars>>

\* cleanup, line 21: pro.terminate(), which does nothing to a child that
\* has been waited for
Terminate ==
    /\ prod.pc = "cleanup"
    /\ prod' = [prod EXCEPT !.pc = "cleanup wait", !.cleanups = @ + 1,
                            !.terminated = prod.child = "running"]
    /\ UNCHANGED <<cache, now, hist, req, engineVars>>

\* cleanup, lines 22-23: pro.wait(timeout=5) returns
CleanupWaitReturns ==
    /\ prod.pc = "cleanup wait"
    /\ prod.child = "exited"
    /\ prod' = [prod EXCEPT !.pc = "done"]
    /\ UNCHANGED <<cache, now, hist, req, engineVars>>

\* cleanup, lines 24-25: five seconds have passed, pro.kill()
CleanupTimeout ==
    /\ prod.pc = "cleanup wait"
    /\ prod.child = "running"
    /\ prod' = [prod EXCEPT !.pc = "done", !.killed = TRUE]
    /\ UNCHANGED <<cache, now, hist, req, engineVars>>

NextProd ==
    \/ Build
    \/ Popen
    \/ InstallHandler
    \/ ChildExits
    \/ WaitReturns
    \/ Sigint
    \/ Terminate
    \/ CleanupWaitReturns
    \/ CleanupTimeout

SpecProd == InitProd /\ [][NextProd]_vars

-----------------------------------------------------------------------------
(* Properties *)

Returned == call.made /\ result.outcome = "returned"

AlertNames == {"contrarian_alert", "CONTRARIAN_ALERT"}

Recommendations == {"strong_buy", "buy", "hold", "sell", "strong_sell"}

\* the reddit average_compound passed to the latest call
RedditRaw == call.args.reddit_sentiment_analysis["average_compound"]

\* C1: a call whose social raw average_compound is above 0.85 returns the
\* contrarian alert "Extreme Euphoria" with confidence 1.0, whatever the
\* other inputs are.
C1_GatePrecedenceEuphoria ==
    (call.made /\ RedditRaw > Pct(85)) =>
        /\ result.outcome = "returned"
        /\ result.recommendation \in AlertNames
        /\ Has(result, "alert_type")
        /\ result.alert_type = "Extreme Euphoria"
        /\ result.confidence = One

ValidPerInterface(a) ==
    /\ \A k \in {"status", "fair_value", "support_value", "resistance_value"} :
            Has(a.power_law_analysis, k)
    /\ a.power_law_analysis["fair_value"] > 0
    /\ \A k \in {"rsi", "macd", "ma_trend", "ma_crossovers", "moving_averages", "overall"} :
            Has(a.technical_analysis, k)
    /\ Has(a.technical_analysis["rsi"], "value")
    /\ \A k \in {"signal", "histogram"} : Has(a.technical_analysis["macd"], k)
    /\ \A k \in {"average_compound", "overall_sentiment", "recommendation",
                 "confidence", "article_count"} :
            Has(a.news_sentiment_analysis, k) /\ Has(a.reddit_sentiment_analysis, k)
    /\ a.current_price > 0

\* C2: every call on a constructed engine with inputs valid per the interface
\* returns normally with one of the six recommendations.
C2_Totality ==
    (call.made /\ engine.status = "constructed" /\ ValidPerInterface(call.args)) =>
        /\ result.outcome = "returned"
        /\ result.recommendation \in Recommendations \cup AlertNames

\* C3: for a score in [-1, 1] the mapper returns strong_buy iff s >= 0.7, buy
\* iff 0.3 <= s < 0.7, hold iff -0.3 < s < 0.3, sell iff -0.7 < s <= -0.3 and
\* strong_sell iff s <= -0.7.
C3_Thresholds ==
    (mapped.recommendation # "none" /\ -One <= score /\ score <= One) =>
        /\ mapped.recommendation = "strong_buy" <=> score >= Pct(70)
        /\ mapped.recommendation = "buy" <=> (Pct(30) <= score /\ score < Pct(70))
        /\ mapped.recommendation = "hold" <=> (-Pct(30) < score /\ score < Pct(30))
        /\ mapped.recommendation = "sell" <=> (-Pct(70) < score /\ score <= -Pct(30))
        /\ mapped.recommendation = "strong_sell" <=> score <= -Pct(70)

C3_Witness ==
    /\ score = -Pct(30)
    /\ mapped.recommendation = "sell"

InUnit(x) == -One <= x /\ x <= One

\* C4: for an RSI in [0, 100] each of the five factor scores and the composite
\* score computed by generate_recommendation lies in [-1, 1].
C4_ScoresBounded ==
    Returned =>
        /\ InUnit(result.locals.rsi_score)
        /\ InUnit(result.locals.ma_score)
        /\ InUnit(result.locals.pl_score)
        /\ InUnit(result.locals.macd_score)
        /\ InUnit(result.locals.sentiment_score)
        /\ InUnit(result.locals.composite_score)
        /\ \A f \in DOMAIN result.factor_scores : InUnit(result.factor_scores[f])
        /\ InUnit(result.composite_score)

\* the moving-average sum is 0.8 + 0.3 + 0.2 before the clamp
C4_Witness ==
    /\ Returned
    /\ Get(call.args.technical_analysis, "ma_trend", PyStr("neutral")) = PyStr("strong_bullish")
    /\ Get(Get(call.args.technical_analysis, "ma_crossovers", EmptyDict),
           "golden_cross", FALSE)
    /\ Has(Get(call.args.technical_analysis, "moving_averages", EmptyDict), "ema_147")
    /\ result.locals.ma_score = One

WeightOutside(w) == w < 0 \/ w > One

\* C5: the constructor raises, and stores no weights, when a weight is outside
\* [0, 1] or the sum is off 1.0 by more than 0.01; when it succeeds the stored
\* weights are the supplied ones.
C5_WeightValidation ==
    ctor.made =>
        /\ (\/ WeightOutside(ctor.reddit_weight)
            \/ WeightOutside(ctor.news_weight)
            \/ WeightOutside(ctor.technical_weight)
            \/ Abs(ctor.reddit_weight + ctor.news_weight + ctor.technical_weight - One)
                   > Pct(1))
              => (engine.status = "ValueError" /\ ~Has(engine, "reddit_weight"))
        /\ engine.status = "constructed" =>
              /\ engine.reddit_weight = ctor.reddit_weight
              /\ engine.news_weight = ctor.news_weight
              /\ engine.technical_weight = ctor.technical_weight

\* weights accepted although they do not sum to 1.0 exactly
C5_Witness ==
    /\ ctor.made
    /\ engine.status = "constructed"
    /\ engine.reddit_weight + engine.news_weight + engine.technical_weight # One

MissingTechnicalField(ta) ==
    \/ \E k \in {"rsi", "macd", "ma_trend", "ma_crossovers"} : ~Has(ta, k)
    \/ Has(ta, "rsi") /\ ~Has(ta["rsi"], "value")

\* C6: a call whose technical input lacks the rsi, macd, ma_trend or
\* ma_crossovers entry, or the RSI value, raises an error.
C6_MissingFieldsRaise ==
    (call.made /\ MissingTechnicalField(call.args.technical_analysis)) =>
        result.outcome = "raised"

\* C7: a call whose social raw average_compound is below 0.15 returns the
\* contrarian alert "Extreme Fear" with confidence 1.0 and the targets price,
\* 0.95 x price, 1.05 x price; a raw score in [0.15, 0.85] gives no alert.
C7_GateFear ==
    call.made =>
        /\ RedditRaw < Pct(15) =>
              /\ result.outcome = "returned"
              /\ result.recommendation \in AlertNames
              /\ Has(result, "alert_type")
              /\ result.alert_type = "Extreme Fear"
              /\ result.confidence = One
              /\ result.targets =
                     _create_contrarian_alert("", "Extreme Fear",
                                              call.args.current_price).targets
        /\ (Pct(15) <= RedditRaw /\ RedditRaw <= Pct(85) /\ result.outcome = "returned") =>
              result.recommendation \in Recommendations

\* the confidence the decision table gives for a recommendation and a score
TableConfidence(recommendation, s) ==
    CASE recommendation \in {"strong_buy", "strong_sell"} -> Min(Abs(s), One)
      [] recommendation \in {"buy", "sell"} -> Abs(s)
      [] OTHER -> One - Abs(s)

\* C8 as stated: the confidence returned with the recommendation is
\* min(|s|, 1.0) for strong_buy and strong_sell, |s| for buy and sell and
\* 1.0 - |s| for hold, and lies in [0, 1].
C8_ConfidenceAsStated ==
    Returned =>
        /\ result.confidence =
               TableConfidence(result.recommendation, result.locals.composite_score)
        /\ 0 <= result.confidence /\ result.confidence <= One

\* C8 amended: _score_to_recommendation computes the table's confidence, and
\* the confidence in the result is that value rounded to two decimals, in [0, 1].
C8_ConfidenceRounded ==
    Returned =>
        LET c == TableConfidence(result.recommendation, result.locals.composite_score)
        IN  /\ result.locals.confidence = c
            /\ result.confidence % Pct(1) = 0
            /\ 2 * Abs(result.confidence - c) <= Pct(1)
            /\ 0 <= result.confidence /\ result.confidence <= One

C8_Witness ==
    /\ Returned
    /\ result.recommendation = "hold"
    /\ result.confidence # result.locals.confidence

\* C9: the composite score is 0.20 x rsi + 0.25 x ma + 0.25 x power_law
\* + 0.15 x macd + 0.15 x sentiment with no further normalisation; the
\* factor_weights reported are these five constants and sum to 1.0; the
\* composite_score reported is the composite rounded to three decimals.
C9_CompositeIsWeightedSum ==
    Returned =>
        LET w == result.factor_weights
            l == result.locals
        IN  /\ w = [rsi |-> Pct(20), moving_averages |-> Pct(25), power_law |-> Pct(25),
                    macd |-> Pct(15), sentiment |-> Pct(15)]
            /\ w.rsi + w.moving_averages + w.power_law + w.macd + w.sentiment = One
            /\ l.composite_score * One =
                   w.rsi * l.rsi_score + w.moving_averages * l.ma_score
                   + w.power_law * l.pl_score + w.macd * l.macd_score
                   + w.sentiment * l.sentiment_score
            /\ result.composite_score % (One \div 1000) = 0
            /\ 2 * Abs(result.composite_score - l.composite_score) <= One \div 1000

C9_Witness ==
    /\ Returned
    /\ result.locals.rsi_score # 0
    /\ result.locals.ma_score # 0
    /\ result.locals.macd_score # 0
    /\ result.locals.sentiment_score # 0
    /\ result.locals.composite_score # result.composite_score

Called(fn) == probe.fn = fn /\ ret # NoReturn

\* the five RSI zones of the scorer
RsiZone(v) ==
    {z \in {"overbought", "oversold", "neutral", "strength", "weakness"} :
        \/ z = "overbought" /\ v >= 70
        \/ z = "oversold" /\ v <= 30
        \/ z = "neutral" /\ 40 <= v /\ v <= 60
        \/ z = "strength" /\ 60 < v /\ v < 70
        \/ z = "weakness" /\ 30 < v /\ v < 40}

\* C11: for an RSI v in [0, 100] _analyze_rsi returns
\* -0.5 - 0.5 min((v - 70)/30, 1) when v >= 70, 0.5 + 0.5 min((30 - v)/30, 1)
\* when v <= 30, 0 when 40 <= v <= 60, -0.3 when 60 < v < 70 and 0.3 when
\* 30 < v < 40, and v lies in exactly one of the five zones.
C11_RsiScorer ==
    (Called("_analyze_rsi") /\ 0 <= probe.rsi_value /\ probe.rsi_value <= 100) =>
        LET v == probe.rsi_value
        IN  /\ v >= 70 => 60 * ret.score = -(30 * One) - Min((v - 70) * One, 30 * One)
            /\ v <= 30 => 60 * ret.score = 30 * One + Min((30 - v) * One, 30 * One)
            /\ (40 <= v /\ v <= 60) => ret.score = 0
            /\ (60 < v /\ v < 70) => 10 * ret.score = -3 * One
            /\ (30 < v /\ v < 40) => 10 * ret.score = 3 * One
            /\ Cardinality(RsiZone(v)) = 1

C11_Witness ==
    /\ Called("_analyze_rsi")
    /\ probe.rsi_value = 70
    /\ 2 * ret.score = -One

\* two evaluations whose arguments differ in the RSI value at most
SameButRsi(a1, a2) ==
    /\ a1.power_law_analysis = a2.power_law_analysis
    /\ a1.news_sentiment_analysis = a2.news_sentiment_analysis
    /\ a1.reddit_sentiment_analysis = a2.reddit_sentiment_analysis
    /\ a1.current_price = a2.current_price
    /\ [a1.technical_analysis EXCEPT !["rsi"] = EmptyDict]
           = [a2.technical_analysis EXCEPT !["rsi"] = EmptyDict]

\* C12: of two RSI values v1 <= v2 in [0, 100] the second never has the
\* greater RSI factor score, and of two evaluations that differ only in the
\* RSI, v1 <= v2, the second never has the greater composite score.
C12_RsiMonotone ==
    /\ (prev.fn = "_analyze_rsi"
        /\ 0 <= prev.probe.rsi_value /\ prev.probe.rsi_value <= probe.rsi_value
        /\ probe.rsi_value <= 100)
           => ret.score <= prev.ret.score
    /\ (prev.fn = "generate_recommendation"
        /\ SameButRsi(prev.probe.args, probe.args)
        /\ prev.probe.args.technical_analysis["rsi"]["value"]
               <= probe.args.technical_analysis["rsi"]["value"]
        /\ prev.ret.outcome = "returned" /\ ret.outcome = "returned")
           => /\ ret.locals.rsi_score <= prev.ret.locals.rsi_score
              /\ ret.locals.composite_score <= prev.ret.locals.composite_score
              /\ ret.composite_score <= prev.ret.composite_score

C12_Witness ==
    /\ prev.fn = "generate_recommendation"
    /\ SameButRsi(prev.probe.args, probe.args)
    /\ prev.probe.args.technical_analysis["rsi"]["value"] = 30
    /\ probe.args.technical_analysis["rsi"]["value"] = 31
    /\ ret.outcome = "returned"
    /\ ret.locals.composite_score < prev.ret.locals.composite_score

\* the long-horizon EMA of a technical input: absent, or the record
\* {value, price_vs_ma, ...} the interface describes
EmaPerInterface(technical_analysis) ==
    LET ema == Get(Get(technical_analysis, "moving_averages", EmptyDict), "ema_147", PyNone)
    IN  ema = PyNone \/ (ema.type = "dict" /\ Has(ema.v, "value"))

\* the moving-average score as stated: clamp(trend + cross + band, -1, 1)
StatedMaScore(current_price, technical_analysis, ma_trend, ma_crossovers) ==
    LET ema == Get(Get(technical_analysis, "moving_averages", EmptyDict), "ema_147", PyNone)
        trend == CASE ma_trend = "strong_bullish" -> Pct(80)
                   [] ma_trend = "bullish" -> Pct(50)
                   [] ma_trend = "bearish" -> -Pct(50)
                   [] ma_trend = "strong_bearish" -> -Pct(80)
                   [] OTHER -> 0
        cross == IF Get(ma_crossovers, "golden_cross", FALSE) THEN Pct(30)
                 ELSE IF Get(ma_crossovers, "death_cross", FALSE) THEN -Pct(30)
                 ELSE 0
        band == IF ema = PyNone THEN 0
                ELSE IF 100 * current_price > 105 * ema.v["value"] THEN Pct(20)
                ELSE IF 100 * current_price < 95 * ema.v["value"] THEN -Pct(20)
                ELSE 0
    IN  Max(-One, Min(One, trend + cross + band))

\* C13: for every trend, every pair of crossover flags not both set and a
\* long-horizon EMA that is absent or supplied as the interface describes,
\* _analyze_moving_averages returns clamp(trend + cross + band, -1, 1) and
\* raises no error.
C13_MovingAverageScorer ==
    (Called("_analyze_moving_averages")
     /\ ~(Get(probe.ma_crossovers, "golden_cross", FALSE)
          /\ Get(probe.ma_crossovers, "death_cross", FALSE))
     /\ EmaPerInterface(probe.technical_analysis)) =>
        /\ ret.ok
        /\ ret.score = StatedMaScore(probe.current_price, probe.technical_analysis,
                                     probe.ma_trend, probe.ma_crossovers)

\* C14: with fair_value > 0 and deviation = (price - fair_value)/fair_value
\* x 100, _analyze_power_law returns +1.0 for the deep-value status and -1.0
\* for bubble risk whatever the deviation, and for the fair-value zone +0.6 if
\* deviation < -20, else +0.3 if deviation < -10, else -0.7 if deviation > 50,
\* else -0.4 if deviation > 20, else +0.1.
C14_PowerLawScorer ==
    (Called("_analyze_power_law") /\ probe.fair_value > 0) =>
        LET \* deviation, times fair_value
            dev == (probe.current_price - probe.fair_value) * 100
            fv == probe.fair_value
        IN  /\ ret.ok
            /\ ret.score =
                   IF probe.status = "Deep Value" THEN One
                   ELSE IF probe.status = "Bubble Risk" THEN -One
                   ELSE IF dev < -20 * fv THEN (6 * One) \div 10
                   ELSE IF dev < -10 * fv THEN (3 * One) \div 10
                   ELSE IF dev > 50 * fv THEN -((7 * One) \div 10)
                   ELSE IF dev > 20 * fv THEN -((4 * One) \div 10)
                   ELSE One \div 10

C14_Witness ==
    /\ Called("_analyze_power_law")
    /\ probe.status = "Fair Value Zone"
    /\ probe.current_price = 80 /\ probe.fair_value = 100
    /\ 10 * ret.score = 3 * One

\* C15: for every histogram h, h = 0 included, _analyze_macd returns
\* 0.3 + 0.4 min(|h|/1000, 1) for a bullish signal, -0.3 - 0.4 min(|h|/1000, 1)
\* for a bearish one and 0 for a neutral one.
C15_MacdScorer ==
    (Called("_analyze_macd") /\ Has(probe.macd, "signal") /\ Has(probe.macd, "histogram")) =>
        LET h == probe.macd["histogram"]
            \* 0.4 x min(|h|/1000, 1), times 10000
            momentum == 4 * One * Min(Abs(h), 1000)
        IN  /\ probe.macd["signal"] = "bullish"
                => 10000 * ret.score = 3000 * One + momentum
            /\ probe.macd["signal"] = "bearish"
                => 10000 * ret.score = -(3000 * One) - momentum
            /\ probe.macd["signal"] = "neutral" => ret.score = 0

\* C16: for social and news scores in [-1, 1] _analyze_sentiment returns -0.6
\* if either is above 0.85; otherwise +0.6 if either is below 0.15; otherwise,
\* on their average, +0.4 above 0.6, +0.2 above 0.3, -0.4 below -0.3, -0.2
\* below -0.1, and 0 in every other case, in this order of precedence.
C16_SentimentScorer ==
    (Called("_analyze_sentiment")
     /\ -One <= probe.reddit_score /\ probe.reddit_score <= One
     /\ -One <= probe.news_score /\ probe.news_score <= One) =>
        LET social == probe.reddit_score
            news == probe.news_score
            \* 100 x average, in 1/One, doubled
            avg200 == 100 * (social + news)
        IN  10 * ret.score =
                IF 100 * social > 85 * One \/ 100 * news > 85 * One THEN -6 * One
                ELSE IF 100 * social < 15 * One \/ 100 * news < 15 * One THEN 6 * One
                ELSE IF avg200 > 120 * One THEN 4 * One
                ELSE IF avg200 > 60 * One THEN 2 * One
                ELSE IF avg200 < -60 * One THEN -4 * One
                ELSE IF avg200 < -20 * One THEN -2 * One
                ELSE 0

C16_Witness ==
    /\ Called("_analyze_sentiment")
    /\ 10 * probe.reddit_score = 9 * One
    /\ 10 * probe.news_score = One
    /\ 10 * ret.score = -6 * One

DirectionalKeys == {"entry", "target_1", "target_2", "stop_loss"}

NeutralKeys == {"entry", "support", "resistance"}

\* +1 for the buy family, -1 for the sell family
Direction(recommendation) == IF ContainsBuy(recommendation) THEN 1 ELSE -1

\* C17 as stated: _calculate_targets returns target_1 = p(1 + 0.05c),
\* target_2 = p(1 + 0.10c), stop_loss = p(1 - 0.03c) for buy and strong_buy,
\* the mirrored values for sell and strong_sell, and support = 0.95p,
\* resistance = 1.05p otherwise, with exactly the directional or the neutral
\* set of keys.
C17_TargetsAsStated ==
    (Called("_calculate_targets") /\ probe.current_price > 0
     /\ 0 <= probe.confidence /\ probe.confidence <= One) =>
        LET p == probe.current_price
            \* p x c, in dollars / One; the targets are in cents
            pc == p * probe.confidence
            d == Direction(probe.recommendation)
        IN  IF ContainsBuy(probe.recommendation) \/ ContainsSell(probe.recommendation)
            THEN /\ DOMAIN ret = DirectionalKeys
                 /\ ret.entry = 100 * p
                 /\ (ret.target_1 - 100 * p) * (One \div 5) = d * pc
                 /\ (ret.target_2 - 100 * p) * (One \div 10) = d * pc
                 /\ (100 * p - ret.stop_loss) * (One \div 3) = d * pc
            ELSE /\ DOMAIN ret = NeutralKeys
                 /\ ret.entry = 100 * p
                 /\ ret.support = 95 * p
                 /\ ret.resistance = 105 * p

\* C17, amended: each returned price is the stated value rounded to two
\* decimals, so within half a cent of it; the key sets are as stated.
C17_TargetsRounded ==
    (Called("_calculate_targets") /\ probe.current_price > 0
     /\ 0 <= probe.confidence /\ probe.confidence <= One) =>
        LET p == probe.current_price
            pc == p * probe.confidence
            d == Direction(probe.recommendation)
        IN  IF ContainsBuy(probe.recommendation) \/ ContainsSell(probe.recommendation)
            THEN /\ DOMAIN ret = DirectionalKeys
                 /\ ret.entry = 100 * p
                 /\ Abs((ret.target_1 - 100 * p) * (One \div 5) - d * pc) <= One \div 10
                 /\ Abs((ret.target_2 - 100 * p) * (One \div 10) - d * pc) <= One \div 20
                 /\ Abs((100 * p - ret.stop_loss) * (One \div 3) - d * pc) <= One \div 6
            ELSE /\ DOMAIN ret = NeutralKeys
                 /\ ret.entry = 100 * p
                 /\ ret.support = 95 * p
                 /\ ret.resistance = 105 * p

C17_Witness ==
    /\ Called("_calculate_targets")
    /\ probe.current_price = 64001
    /\ probe.recommendation = "sell"
    /\ 100 * probe.confidence = 33 * One
    /\ ret.target_1 = 6294498
    /\ ret.stop_loss = 6463461

\* the arguments of the bullish confluence: RSI <= 30, deep value, MACD
\* bullish, strong_bullish trend with golden_cross, both sentiment scores in
\* [0.15, 0.85] with an average above 0.3
BullishConfluence(a) ==
    /\ Has(a.technical_analysis, "rsi") /\ Has(a.technical_analysis["rsi"], "value")
    /\ a.technical_analysis["rsi"]["value"] <= 30
    /\ Get(a.power_law_analysis, "status", "none") = "Deep Value"
    /\ Get(a.power_law_analysis, "fair_value", 0) > 0
    /\ Get(Get(a.technical_analysis, "macd", EmptyDict), "signal", "none") = "bullish"
    /\ Get(a.technical_analysis, "ma_trend", PyStr("none")) = PyStr("strong_bullish")
    /\ Get(Get(a.technical_analysis, "ma_crossovers", EmptyDict), "golden_cross", FALSE)
    /\ Has(a.reddit_sentiment_analysis, "average_compound")
    /\ Has(a.news_sentiment_analysis, "average_compound")
    /\ LET social == a.reddit_sentiment_analysis["average_compound"]
           news == a.news_sentiment_analysis["average_compound"]
       IN  /\ Pct(15) <= social /\ social <= Pct(85)
           /\ Pct(15) <= news /\ news <= Pct(85)
           /\ social + news > 2 * Pct(30)

\* C18: every call with the bullish confluence returns five strictly positive
\* factor scores, a composite score above 0.3 and buy or strong_buy.
C18_BullishConfluence ==
    (call.made /\ BullishConfluence(call.args)) =>
        /\ result.outcome = "returned"
        /\ result.locals.rsi_score > 0
        /\ result.locals.ma_score > 0
        /\ result.locals.pl_score > 0
        /\ result.locals.macd_score > 0
        /\ result.locals.sentiment_score > 0
        /\ result.locals.composite_score > Pct(30)
        /\ result.recommendation \in {"buy", "strong_buy"}

\* the places of a factor's rationale in a reasoning text
Places(reasoning, label) == {i \in DOMAIN reasoning : reasoning[i][1] = label}

Before(reasoning, first, second) ==
    \A i \in Places(reasoning, first), j \in Places(reasoning, second) : i < j

\* C19: the reasoning of every normal-path result gives the rationales in the
\* order power law, moving averages, RSI and MACD, sentiment, closing score
\* note, each of the five exactly once.
C19_ReasoningOrder ==
    Returned =>
        LET r == result.reasoning
        IN  /\ \A label \in {"Power Law", "Moving Averages", "RSI", "MACD",
                             "Market Sentiment", "Score"} :
                   Cardinality(Places(r, label)) = 1
            /\ Before(r, "Power Law", "Moving Averages")
            /\ Before(r, "Moving Averages", "RSI")
            /\ Before(r, "Moving Averages", "MACD")
            /\ Before(r, "RSI", "Market Sentiment")
            /\ Before(r, "MACD", "Market Sentiment")
            /\ Before(r, "Market Sentiment", "Score")

\* the rationales the moving-average scorer gives for adapter-made crossovers
CrossoverRationales(ma_crossovers) ==
    LET r == _analyze_moving_averages(64000, EmptyDict, PyStr("neutral"), ma_crossovers)
    IN  {r.signal[i] : i \in DOMAIN r.signal}

\* C20: detect_ma_crossovers never reports golden_cross and death_cross both
\* true, nor short_term_bullish_cross and short_term_bearish_cross both true,
\* so the moving-average scorer never applies both crossover terms to what
\* the adapter produced.
C20_CrossoverExclusive ==
    Called("detect_ma_crossovers") =>
        /\ ~(Get(ret, "golden_cross", FALSE) /\ Get(ret, "death_cross", FALSE))
        /\ ~(Get(ret, "short_term_bullish_cross", FALSE)
             /\ Get(ret, "short_term_bearish_cross", FALSE))
        /\ ~({"Golden Cross", "Death Cross"} \subseteq CrossoverRationales(ret))

C20_Witness ==
    /\ Called("detect_ma_crossovers")
    /\ probe.data.len >= 200
    /\ Get(ret, "golden_cross", FALSE)
    /\ ~Has(ret, "death_cross")
    /\ Get(ret, "short_term_bearish_cross", FALSE)
    /\ "Golden Cross" \in CrossoverRationales(ret)

\* the latest two calls were the same evaluation on two engines
OnTwoEngines ==
    /\ prev.fn = "generate_recommendation"
    /\ Has(probe, "self")
    /\ probe.args = prev.probe.args

\* C21: two engines built with different valid weights (reddit_weight +
\* news_weight > 0 in each) return, for the same inputs, the same
\* recommendation, confidence, composite_score, factor_scores, factor_weights
\* and targets.
C21_WeightsDoNotDecide ==
    (OnTwoEngines
     /\ engine.reddit_weight + engine.news_weight > 0
     /\ probe.self.reddit_weight + probe.self.news_weight > 0) =>
        /\ ret.outcome = prev.ret.outcome
        /\ ret.outcome = "returned" =>
              /\ ret.recommendation = prev.ret.recommendation
              /\ ret.confidence = prev.ret.confidence
              /\ ret.composite_score = prev.ret.composite_score
              /\ ret.factor_scores = prev.ret.factor_scores
              /\ ret.factor_weights = prev.ret.factor_weights
              /\ ret.targets = prev.ret.targets
              /\ ret.reasoning = prev.ret.reasoning

C21_Witness ==
    /\ OnTwoEngines
    /\ probe.self.technical_weight = Pct(60)
    /\ engine.technical_weight = Pct(30)
    /\ ret.outcome = "returned"
    /\ ret.recommendation = prev.ret.recommendation
    /\ ret.signals # prev.ret.signals

\* the recommendation whose band a closing line names
BandRecommendation(line) ==
    CASE line = "Strong confluence of bullish signals" -> "strong_buy"
      [] line = "Moderately bullish setup" -> "buy"
      [] line = "Strong confluence of bearish signals" -> "strong_sell"
      [] line = "Moderately bearish setup" -> "sell"
      [] OTHER -> "hold"

\* C22: in every result the band named in the last line of the reasoning is
\* the band of the recommendation returned with it, also for a composite
\* score of exactly 0.3, 0.7, -0.3 or -0.7, and the heading names that
\* recommendation.
C22_NarrativeAgrees ==
    Returned =>
        LET r == result.reasoning
        IN  /\ r[Len(r)][1] = "Score"
            /\ BandRecommendation(r[Len(r)][2]) = result.recommendation
            /\ r[1] = <<"Holistic Analysis", result.recommendation>>

\* C23: for social and news scores in [-1, 1] _analyze_sentiment returns one
\* of -0.6, +0.6, +0.4, +0.2 and 0, never -0.4 or -0.2, and the pair (0, 0)
\* scores +0.6.
C23_SentimentRange ==
    (Called("_analyze_sentiment")
     /\ -One <= probe.reddit_score /\ probe.reddit_score <= One
     /\ -One <= probe.news_score /\ probe.news_score <= One) =>
        /\ \E tenths \in {-6, 6, 4, 2, 0} : 10 * ret.score = tenths * One
        /\ ret.signal \notin {"Negative sentiment", "Moderately negative"}
        /\ (probe.reddit_score = 0 /\ probe.news_score = 0) => 10 * ret.score = 6 * One

C23_Witness ==
    /\ Called("_analyze_sentiment")
    /\ probe.reddit_score = 0 /\ probe.news_score = 0
    /\ ret.signal = "Extreme fear (contrarian bullish)"

\* C24: in the pipeline a MACD line above (below) its signal line gives a
\* positive (negative) MACD factor score, and a non-neutral moving-average
\* trend gives a non-zero moving-average score when no crossover and no EMA
\* band adds to it.
C24_AdapterVocabulary ==
    (Called("analyze") /\ ret.result.outcome = "returned") =>
        LET ta == ret.technical_analysis
        IN  /\ ta.macd.macd_line > ta.macd.signal_line => ret.result.locals.macd_score > 0
            /\ ta.macd.macd_line < ta.macd.signal_line => ret.result.locals.macd_score < 0
            /\ (ta.ma_trend.v.overall_trend # "neutral"
                /\ ~Get(ta.ma_crossovers, "golden_cross", FALSE)
                /\ ~Get(ta.ma_crossovers, "death_cross", FALSE)
                /\ ~Has(ta.moving_averages, "ema_147"))
                   => ret.result.locals.ma_score # 0

\* C25: for every article list, the empty one included, analyze_articles
\* returns a record with average_compound, overall_sentiment, recommendation,
\* confidence and article_count, its confidence within [0, 1] and its three
\* counts adding up to article_count, and the engine given that record as its
\* sentiment inputs does not fail on a missing field.
C25_SentimentComplete ==
    Called("analyze_articles") =>
        /\ \A k \in {"average_compound", "overall_sentiment", "recommendation",
                     "confidence", "article_count"} : Has(ret.sentiment, k)
        /\ Has(ret.sentiment, "confidence") =>
               (0 <= ret.sentiment.confidence /\ ret.sentiment.confidence <= One)
        /\ ret.sentiment.positive_count + ret.sentiment.negative_count
               + ret.sentiment.neutral_count = ret.sentiment.article_count
        /\ ret.result.outcome = "returned"

\* the latest cache operation
CacheOp(name) == hist.op = name

\* every key but the one of the latest operation is as the operation found it
OtherKeysUntouched ==
    \A k \in CacheKeys \ {hist.key} :
        /\ Has(cache, k) = Has(hist.before, k)
        /\ Has(cache, k) => cache[k] = hist.before[k]

\* C26: get(key) returns the value of the latest set(key, value, ttl) not
\* followed by clear when the time is strictly before that set's time + ttl and
\* None in every other case; a get that finds an expired entry removes it, and
\* get and set leave the entries of the other keys as they were.
C26_NeverServesExpired ==
    /\ CacheOp("get") =>
          LET k == hist.key
              live == /\ Has(hist.stored, k)
                      /\ hist.time < hist.stored[k].time + hist.stored[k].ttl
          IN  /\ hist.returned = IF live THEN hist.stored[k].value ELSE PyNone
              /\ (Has(hist.before, k) /\ hist.before[k].expiry <= hist.time)
                     => ~Has(cache, k)
              /\ OtherKeysUntouched
    /\ CacheOp("set") => OtherKeysUntouched

\* a get that found the expired entry of its key, while the other key is stored
C26_Witness ==
    /\ CacheOp("get")
    /\ Has(hist.before, hist.key)
    /\ hist.before[hist.key].expiry = hist.time
    /\ ~Has(cache, hist.key)
    /\ \E k \in CacheKeys \ {hist.key} : Has(cache, k)

\* the provider calls of the request, in the order they were made
Consulted == req.consulted

Answered == req.pc = "answered"

\* C27: the providers are consulted in the order yfinance, coingecko, binance,
\* each only after every earlier one raised; the answer carries the price and
\* name of the first that did not raise; the answer is 503 exactly when all
\* three raised, and its last_error is then the error binance raised.
C27_FallbackOrder ==
    req.pc \in {"providers", "answered"} =>
        /\ Len(Consulted) <= 3
        /\ \A n \in 1 .. Len(Consulted) :
              Consulted[n].provider = <<"yfinance", "coingecko", "binance">>[n]
        /\ \A n \in 1 .. Len(Consulted) - 1 : Consulted[n].raised
        /\ req.pc = "providers" => \A n \in 1 .. Len(Consulted) : Consulted[n].raised
        /\ (Answered /\ req.answer.status = 200 /\ ~req.answer.cached) =>
              LET last == Consulted[Len(Consulted)]
              IN  /\ ~last.raised
                  /\ req.answer.price = last.price
                  /\ req.answer.provider = last.provider
        /\ (Answered /\ req.answer.status = 200 /\ req.answer.cached) => Consulted = <<>>
        /\ Answered =>
              (req.answer.status = 503
                   <=> (Len(Consulted) = 3 /\ \A n \in 1 .. 3 : Consulted[n].raised))
        /\ (Answered /\ req.answer.status = 503) =>
              /\ Consulted[3].provider = "binance"
              /\ req.answer.last_error = PyStr(Consulted[3].error)

\* binance answered after yfinance and coingecko raised
C27_Witness ==
    /\ Answered
    /\ req.answer.status = 200
    /\ Len(Consulted) = 3
    /\ req.answer.provider = "binance"

\* C28: a request that arrives less than 60 seconds after the latest answer
\* that came from a provider is answered with cached = true and that answer's
\* price, no provider being consulted; a 503 writes nothing to the cache, and a
\* cached answer leaves the entry's expiry as it was.
C28_PriceCached ==
    Answered =>
        /\ (req.known # NoHist /\ req.arrived < req.known.time + 60) =>
              /\ req.answer.status = 200
              /\ req.answer.cached
              /\ req.answer.price = req.known.price
              /\ Consulted = <<>>
        /\ req.answer.status = 503 =>
              \A k \in DOMAIN cache : Has(req.before, k) /\ cache[k] = req.before[k]
        /\ (req.answer.status = 200 /\ req.answer.cached) => cache = req.before

\* the backtest's own mapping of a reported composite score
BacktestSignal(x) ==
    IF x > Pct(30) THEN "buy" ELSE IF x < -Pct(30) THEN "sell" ELSE "hold"

\* buy, sell or hold: the side a recommendation is on
Side(recommendation) ==
    IF recommendation \in {"buy", "strong_buy"} THEN "buy"
    ELSE IF recommendation \in {"sell", "strong_sell"} THEN "sell"
    ELSE "hold"

\* C29: in every returned result the recommendation is the mapper's category
\* for the reported composite_score: buy or strong_buy when it is >= 0.3, sell
\* or strong_sell when it is <= -0.3, hold in between; and the backtest's
\* mapping of the reported score gives the same side.
C29_ReportedScoreDecides ==
    Returned =>
        LET x == result.composite_score
        IN  /\ result.recommendation = _score_to_recommendation(x).recommendation
            /\ x >= Pct(30) => Side(result.recommendation) = "buy"
            /\ x <= -Pct(30) => Side(result.recommendation) = "sell"
            /\ (-Pct(30) < x /\ x < Pct(30)) => Side(result.recommendation) = "hold"
            /\ BacktestSignal(x) = Side(result.recommendation)

\* C30: once a SIGINT has been handled by the installed handler while the
\* child was running, cleanup has been called on the child; and once the
\* context manager of a started child has been left, cleanup has run and the
\* child has exited or has been sent SIGKILL.
C30_SigintCleanup ==
    /\ prod.sigint_while_running => prod.cleanups > 0
    /\ (prod.pc = "done" /\ prod.child # "none") =>
          /\ prod.cleanups > 0
          /\ prod.child = "exited" \/ prod.killed

====
